---- MODULE Spec2Model ----
(***************************************************************************)
(* Model of the Dataview-to-Bases converter: the AST-to-configuration      *)
(* transformer (class DataviewToBasesTransformer) and the entry point      *)
(* parseDataviewTable.  Field and Source trees are records tagged by       *)
(* "type", as in the TypeScript AST; run-time values produced by the       *)
(* lowering (strings, logical filter objects, null, a thrown Error) are    *)
(* records tagged by "t".                                                  *)
(***************************************************************************)
EXTENDS Integers, Sequences, FiniteSets, TLC

VARIABLES pc, call, query, placeFiltersInView, parseResult, field, source, property, filterText,
          result, lowered, output, formulaCounter, history, updatedFilter, pending, leaves,
          operands, callback, reply

vars == <<pc, call, query, placeFiltersInView, parseResult, field, source, property, filterText,
          result, lowered, output, formulaCounter, history, updatedFilter, pending, leaves,
          operands, callback, reply>>

(***************************************************************************)
(* JavaScript strings.                                                     *)
(***************************************************************************)
UpperLetters == "ABCDEFGHIJKLMNOPQRSTUVWXYZ"

LowerLetters == "abcdefghijklmnopqrstuvwxyz"

Digits == "0123456789"

HexDigits == "0123456789abcdef"

CharAt(s, i) == SubSeq(s, i, i)

RECURSIVE IndexOfChar(_, _, _)
\* 1-based position of the one-character string c in s at or after i; 0 if none
IndexOfChar(s, c, i) ==
  IF i > Len(s) THEN 0
  ELSE IF CharAt(s, i) = c THEN i
  ELSE IndexOfChar(s, c, i + 1)

IsDigit(c) == IndexOfChar(Digits, c, 1) > 0

IsLetter(c) == IndexOfChar(UpperLetters, c, 1) > 0 \/ IndexOfChar(LowerLetters, c, 1) > 0

\* the vertical tab, U+000B, written as the character itself
VerticalTab == ""

\* the white space of \s, trim() and parseInt: the six ASCII characters (the
\* others, U+00A0, U+FEFF and the Unicode spaces, are letters no text of the
\* model holds)
IsSpace(c) == c \in {" ", "\t", "\n", "\r", "\f", VerticalTab}

\* the texts of the model are ASCII (a string of TLC holds no other letter);
\* on them toLowerCase changes the letters A to Z and nothing else
LowerChar(c) ==
  LET i == IndexOfChar(UpperLetters, c, 1)
  IN IF i > 0 THEN CharAt(LowerLetters, i) ELSE c

RECURSIVE toLowerCase(_)
toLowerCase(s) ==
  IF s = "" THEN "" ELSE LowerChar(CharAt(s, 1)) \o toLowerCase(Tail(s))

startsWith(s, p) == Len(s) >= Len(p) /\ SubSeq(s, 1, Len(p)) = p

endsWith(s, p) == Len(s) >= Len(p) /\ SubSeq(s, Len(s) - Len(p) + 1, Len(s)) = p

RECURSIVE includes(_, _)
includes(s, p) ==
  IF Len(s) < Len(p) THEN FALSE
  ELSE IF startsWith(s, p) THEN TRUE
  ELSE includes(Tail(s), p)

RECURSIVE trimStart(_)
trimStart(s) == IF s # "" /\ IsSpace(CharAt(s, 1)) THEN trimStart(Tail(s)) ELSE s

RECURSIVE trimEnd(_)
trimEnd(s) ==
  IF s # "" /\ IsSpace(CharAt(s, Len(s))) THEN trimEnd(SubSeq(s, 1, Len(s) - 1)) ELSE s

trim(s) == trimEnd(trimStart(s))

RECURSIVE replaceAllChar(_, _, _)
\* s.replace(/c/g, r) for a one-character pattern c
replaceAllChar(s, c, r) ==
  IF s = "" THEN ""
  ELSE (IF CharAt(s, 1) = c THEN r ELSE CharAt(s, 1)) \o replaceAllChar(Tail(s), c, r)

RECURSIVE replaceSpaceRuns(_, _)
\* s.replace(/\s+/g, r): every maximal run of white space becomes r
replaceSpaceRuns(s, r) ==
  IF s = "" THEN ""
  ELSE IF IsSpace(CharAt(s, 1)) THEN r \o replaceSpaceRuns(trimStart(s), r)
  ELSE CharAt(s, 1) \o replaceSpaceRuns(Tail(s), r)

\* s.replace(/^"/, "").replace(/"$/, "")
stripQuotes(s) ==
  LET a == IF startsWith(s, "\"") THEN Tail(s) ELSE s
  IN IF endsWith(a, "\"") THEN SubSeq(a, 1, Len(a) - 1) ELSE a

RECURSIVE padStart(_, _, _)
padStart(s, n, c) == IF Len(s) >= n THEN s ELSE padStart(c \o s, n, c)

RECURSIVE DigitRunEnd(_, _)
\* last position of the maximal run of digits of s that starts at i (i - 1 if none)
DigitRunEnd(s, i) ==
  IF i <= Len(s) /\ IsDigit(CharAt(s, i)) THEN DigitRunEnd(s, i + 1) ELSE i - 1

RECURSIVE LetterRunEnd(_, _)
LetterRunEnd(s, i) ==
  IF i <= Len(s) /\ IsLetter(CharAt(s, i)) THEN LetterRunEnd(s, i + 1) ELSE i - 1

RECURSIVE SpaceRunEnd(_, _)
SpaceRunEnd(s, i) ==
  IF i <= Len(s) /\ IsSpace(CharAt(s, i)) THEN SpaceRunEnd(s, i + 1) ELSE i - 1

RECURSIVE DigitsValue(_, _)
\* value of the decimal digit string s, acc being the value read so far
DigitsValue(s, acc) ==
  IF s = "" THEN acc
  ELSE DigitsValue(Tail(s), 10 * acc + (IndexOfChar(Digits, CharAt(s, 1), 1) - 1))

RECURSIVE HexRunEnd(_, _)
\* last position of the maximal run of hexadecimal digits of s that starts at i
HexRunEnd(s, i) ==
  IF i <= Len(s) /\ IndexOfChar(HexDigits, LowerChar(CharAt(s, i)), 1) > 0
    THEN HexRunEnd(s, i + 1)
  ELSE i - 1

RECURSIVE HexValue(_, _)
\* value of the hexadecimal digit string s, acc being the value read so far
HexValue(s, acc) ==
  IF s = "" THEN acc
  ELSE HexValue(Tail(s), 16 * acc + (IndexOfChar(HexDigits, LowerChar(CharAt(s, 1)), 1) - 1))

\* a number parseInt read: neg keeps the sign, which -0 has too
NaN == [nan |-> TRUE, int |-> 0, neg |-> FALSE]

\* the digits of parseInt once the sign is read: hexadecimal after 0x or 0X,
\* decimal otherwise (a value from 2^31 on lies beyond the integers of the
\* model)
ParseDigits(u, neg) ==
  LET hex == startsWith(u, "0x") \/ startsWith(u, "0X")
      d == IF hex THEN SubSeq(u, 3, Len(u)) ELSE u
      e == IF hex THEN HexRunEnd(d, 1) ELSE DigitRunEnd(d, 1)
  IN IF e = 0 THEN NaN
     ELSE [nan |-> FALSE, neg |-> neg,
           int |-> (IF neg THEN -1 ELSE 1)
                     * (IF hex THEN HexValue(SubSeq(d, 1, e), 0)
                        ELSE DigitsValue(SubSeq(d, 1, e), 0))]

\* parseInt(s): optional white space, optional sign, optional 0x, then the
\* longest run of digits of the radix; NaN when that run is empty
parseInt(s) ==
  LET t == trimStart(s)
      neg == startsWith(t, "-")
  IN ParseDigits(IF neg \/ startsWith(t, "+") THEN Tail(t) ELSE t, neg)

RECURSIVE DurMatchFrom(_, _)
\* s.match(/(\d+)\s*([a-zA-Z]+)/) searched from position i: the leftmost run
\* of digits that is followed, after optional white space, by a letter
DurMatchFrom(s, i) ==
  IF i > Len(s) THEN [matched |-> FALSE, num |-> "", unit |-> ""]
  ELSE IF ~IsDigit(CharAt(s, i)) THEN DurMatchFrom(s, i + 1)
  ELSE LET de == DigitRunEnd(s, i)
           se == SpaceRunEnd(s, de + 1)
           le == LetterRunEnd(s, se + 1)
       IN IF le > se
            THEN [matched |-> TRUE, num |-> SubSeq(s, i, de), unit |-> SubSeq(s, se + 1, le)]
          ELSE DurMatchFrom(s, de + 1)

DurMatch(s) == DurMatchFrom(s, 1)

RECURSIVE ZeroRunEnd(_, _)
\* last position of the run of zeros of s that starts at i
ZeroRunEnd(s, i) ==
  IF i <= Len(s) /\ CharAt(s, i) = "0" THEN ZeroRunEnd(s, i + 1) ELSE i - 1

Abs(i) == IF i < 0 THEN -i ELSE i

\* the digits of String(n) without the sign: the exponent form below 1e-6,
\* the decimal form otherwise (the exponent form from 1e21 on lies beyond
\* the integers of the model)
Magnitude(n, zeros) ==
  IF n.frac = "" THEN ToString(Abs(n.num))
  ELSE IF n.num = 0 /\ zeros >= 6
    THEN CharAt(n.frac, zeros + 1)
           \o (IF zeros + 1 < Len(n.frac)
                 THEN "." \o SubSeq(n.frac, zeros + 2, Len(n.frac)) ELSE "")
           \o "e-" \o ToString(zeros + 1)
  ELSE ToString(Abs(n.num)) \o "." \o n.frac

\* String(n) for a JavaScript number held as its sign, integer part and
\* fraction digits (no trailing zero); -0 prints as 0
NumberToString(n) ==
  (IF n.neg /\ (n.num # 0 \/ n.frac # "") THEN "-" ELSE "")
    \o Magnitude(n, ZeroRunEnd(n.frac, 1))

Num(n) == [num |-> n, frac |-> "", neg |-> n < 0]

\* the number sign * (whole + 0.frac)
Fraction(neg, whole, frac) == [num |-> IF neg THEN -whole ELSE whole, frac |-> frac, neg |-> neg]

\* a <= b for a number a and an integer b
NumLeqInt(a, b) == IF a.neg THEN a.num <= b ELSE a.num < b \/ (a.num = b /\ a.frac = "")

\* a >= b for a number a and an integer b
NumGeqInt(a, b) == IF a.neg THEN a.num > b \/ (a.num = b /\ a.frac = "") ELSE a.num >= b

(***************************************************************************)
(* Run-time values returned by the lowering functions.                     *)
(***************************************************************************)
Str(s) == [t |-> "str", s |-> s]

Obj(key, list) == [t |-> "obj", key |-> key, list |-> list]

Null == [t |-> "null"]

Throw(msg) == [t |-> "throw", msg |-> msg]

\* a function or object inherited from Object.prototype, held by the text
\* JavaScript writes for it
Builtin(s) == [t |-> "builtin", s |-> s]

\* an array, and an object held as its own entries in the order of Object.keys
Arr(items) == [t |-> "arr", items |-> items]

Map(entries) == [t |-> "map", entries |-> entries]

NumberValue(n) == [t |-> "number", n |-> n]

Bool(b) == [t |-> "boolean", b |-> b]

Undefined == [t |-> "undefined"]

IsStr(v) == v.t = "str"

IsObj(v) == v.t = "obj"

IsNull(v) == v.t = "null"

IsThrow(v) == v.t = "throw"

\* !v for the values the lowering produces
Falsy(v) == IsNull(v) \/ (IsStr(v) /\ v.s = "")

\* `${v}`
Interp(v) ==
  IF IsStr(v) \/ v.t = "builtin" THEN v.s
  ELSE IF IsNull(v) THEN "null"
  ELSE "[object Object]"

RECURSIVE join(_, _)
\* list.join(sep) for an array of run-time values
join(list, sep) ==
  IF list = <<>> THEN ""
  ELSE (IF IsNull(Head(list)) THEN "" ELSE Interp(Head(list)))
       \o (IF Len(list) > 1 THEN sep \o join(Tail(list), sep) ELSE "")

(***************************************************************************)
(* The AST: Field, Source, header, operation and Query nodes.              *)
(***************************************************************************)
Variable(name) == [type |-> "variable", name |-> name]

StringLit(s) == [type |-> "literal", lit |-> "string", str |-> s]

NumberLit(n) == [type |-> "literal", lit |-> "number", number |-> n]

BoolLit(b) == [type |-> "literal", lit |-> "boolean", bool |-> b]

NullLit == [type |-> "literal", lit |-> "null"]

\* a luxon DateTime, held as the text its toISODate() gives
DateLit(iso) == [type |-> "literal", lit |-> "date", iso |-> iso]

\* a luxon Duration, held as its unit fields
DurationLit(d) == [type |-> "literal", lit |-> "duration", dur |-> d]

\* a value of any other kind (an array, a link, undefined), held as the text
\* String(value) gives; it has no toISO method
OtherLit(text) == [type |-> "literal", lit |-> "other", text |-> text]

NoDuration ==
  [years |-> 0, months |-> 0, weeks |-> 0, days |-> 0, hours |-> 0, minutes |-> 0, seconds |-> 0]

Index(object, index) == [type |-> "index", object |-> object, index |-> index]

BinaryOp(op, left, right) == [type |-> "binaryop", op |-> op, left |-> left, right |-> right]

Function(func, arguments) == [type |-> "function", func |-> func, arguments |-> arguments]

Negated(child) == [type |-> "negated", child |-> child]

List(values) == [type |-> "list", values |-> values]

Call(name, arguments) == Function(Variable(name), arguments)

Folder(folder) == [type |-> "folder", folder |-> folder]

Tag(tag) == [type |-> "tag", tag |-> tag]

Link(file) == [type |-> "link", file |-> file]

NegatedSource(child) == [type |-> "negate", child |-> child]

BinaryOpSource(op, left, right) == [type |-> "binaryop", op |-> op, left |-> left, right |-> right]

EmptySource == [type |-> "empty"]

NamedField(name, f) == [name |-> name, field |-> f]

TableHeader(fields, showId) == [type |-> "table", fields |-> fields, showId |-> showId]

ListHeader == [type |-> "list"]

TaskHeader == [type |-> "task"]

CalendarHeader == [type |-> "calendar"]

WhereStep(clause) == [type |-> "where", clause |-> clause]

SortBy(f, direction) == [field |-> f, direction |-> direction]

SortByStep(fields) == [type |-> "sort", fields |-> fields]

LimitStep(amount) == [type |-> "limit", amount |-> amount]

GroupStep(namedField) == [type |-> "group", field |-> namedField]

FlattenStep(namedField) == [type |-> "flatten", field |-> namedField]

Query(header, src, operations) == [header |-> header, source |-> src, operations |-> operations]

(***************************************************************************)
(* DataviewToBasesTransformer: helpers.                                    *)
(***************************************************************************)
RECURSIVE FlattenInto(_, _, _)
\* the loop of flattenLogicalOperations over the operations not yet visited
FlattenInto(operator, operations, flattened) ==
  IF operations = <<>> THEN flattened
  ELSE LET op == Head(operations)
       IN FlattenInto(operator, Tail(operations),
            IF IsObj(op) /\ op.key = operator THEN flattened \o op.list
            ELSE IF ~IsNull(op) THEN Append(flattened, op)
            ELSE flattened)

\* the end of flattenLogicalOperations, flattened being what the loop built
Degenerate(operator, flattened) ==
  IF Len(flattened) = 1 THEN flattened[1]
  ELSE IF Len(flattened) > 0 THEN Obj(operator, flattened)
  ELSE Null

\* a flattening that keeps a group of the same operator as a nested child
flattenLogicalOperations_nested(operator, operations) ==
  Degenerate(operator, SelectSeq(operations, LAMBDA op : ~IsNull(op)))

RECURSIVE FlattenAny(_, _)
FlattenAny(operations, flattened) ==
  IF operations = <<>> THEN flattened
  ELSE FlattenAny(Tail(operations),
         IF IsObj(Head(operations)) /\ Head(operations).key \in {"and", "or"}
           THEN flattened \o Head(operations).list
         ELSE IF ~IsNull(Head(operations)) THEN Append(flattened, Head(operations))
         ELSE flattened)

\* a flattening that inlines the children of every logical group, whatever
\* its operator
flattenLogicalOperations_any(operator, operations) ==
  Degenerate(operator, FlattenAny(operations, <<>>))

flattenLogicalOperations(operator, operations) ==
  Degenerate(operator, FlattenInto(operator, operations, <<>>))

propertyMap ==
  [p \in {"file.path", "file.name", "file.folder", "file.ext", "file.size",
          "file.ctime", "file.mtime", "file.cday", "file.mday", "tags"} |->
     CASE p = "file.cday" -> "file.ctime"
       [] p = "file.mday" -> "file.mtime"
       [] OTHER -> p]

\* the keys every object literal inherits from Object.prototype
InheritedKeys ==
  {"constructor", "toString", "toLocaleString", "valueOf", "hasOwnProperty",
   "isPrototypeOf", "propertyIsEnumerable", "__defineGetter__", "__defineSetter__",
   "__lookupGetter__", "__lookupSetter__", "__proto__"}

\* propertyMap[prop] for an inherited key: a function, or Object.prototype
Inherited(prop) ==
  IF prop = "__proto__" THEN Builtin("[object Object]")
  ELSE Builtin("function " \o (IF prop = "constructor" THEN "Object" ELSE prop)
               \o "() { [native code] }")

\* the value returned: a string, or what propertyMap inherits under that key
mapDataviewPropertyToBaseProperty(p) ==
  LET prop == trim(p)
  IN IF prop \in DOMAIN propertyMap THEN Str(propertyMap[prop])
     ELSE IF prop \in InheritedKeys THEN Inherited(prop)
     ELSE IF includes(prop, "-") THEN Str(replaceAllChar(prop, "-", "_"))
     ELSE Str(prop)

combineFilters(sourceFilters, whereFilters) ==
  IF Falsy(sourceFilters) /\ Falsy(whereFilters) THEN Null
  ELSE IF Falsy(sourceFilters) THEN whereFilters
  ELSE IF Falsy(whereFilters) THEN sourceFilters
  ELSE flattenLogicalOperations("and", <<sourceFilters, whereFilters>>)

\* a negation that forgets the not-group
negateSource_dropped(inner) == inner

\* the "negate" case of transformSource after the child is lowered
negateSource(inner) == IF Falsy(inner) THEN Null ELSE Obj("not", <<inner>>)

\* a combination that always builds the group of the sides that remain
combineSources_group(op, left, right) ==
  Obj(IF op = "&" THEN "and" ELSE "or", SelectSeq(<<left, right>>, LAMBDA v : ~Falsy(v)))

\* the "binaryop" case of transformSource after both sides are lowered
combineSources(op, left, right) ==
  IF Falsy(left) /\ Falsy(right) THEN Null
  ELSE IF Falsy(left) THEN right
  ELSE IF Falsy(right) THEN left
  ELSE flattenLogicalOperations(IF op = "&" THEN "and" ELSE "or", <<left, right>>)

RECURSIVE transformSource(_)
transformSource(src) ==
  CASE src.type = "folder" ->
         IF src.folder = "" THEN Null
         ELSE Str("file.inFolder(\"" \o src.folder \o "\")")
    [] src.type = "tag" ->
         Str("file.hasTag(\""
             \o (IF startsWith(src.tag, "#") THEN Tail(src.tag) ELSE src.tag)
             \o "\")")
    [] src.type = "link" -> Str("file.hasLink(\"" \o src.file \o "\")")
    [] src.type = "negate" -> negateSource(transformSource(src.child))
    [] src.type = "binaryop" ->
         combineSources(src.op, transformSource(src.left), transformSource(src.right))
    [] src.type = "empty" -> Null
    [] OTHER -> Null

Plural(n) == IF n # 1 THEN "s" ELSE ""

transformLiteral(f) ==
  CASE f.lit = "string" -> "\"" \o f.str \o "\""
    [] f.lit = "number" -> NumberToString(f.number)
    [] f.lit = "boolean" -> IF f.bool THEN "true" ELSE "false"
    [] f.lit = "null" -> "null"
    [] f.lit = "date" -> "date(\"" \o f.iso \o "\")"
    [] f.lit = "duration" ->
         LET dur == f.dur
             Unit(n, name) == "\"" \o ToString(n) \o " " \o name \o Plural(n) \o "\""
         IN IF dur.years # 0 THEN Unit(dur.years, "year")
            ELSE IF dur.months # 0 THEN Unit(dur.months, "month")
            ELSE IF dur.weeks # 0 THEN Unit(dur.weeks, "week")
            ELSE IF dur.days # 0 THEN Unit(dur.days, "day")
            ELSE IF dur.hours # 0 THEN Unit(dur.hours, "hour")
            ELSE IF dur.minutes # 0 THEN Unit(dur.minutes, "minute")
            ELSE IF dur.seconds # 0 THEN Unit(dur.seconds, "second")
            ELSE "\"0 days\""
    [] OTHER -> f.text

IsNumberLit(f) == f.type = "literal" /\ f.lit = "number"

IsDurationLit(f) == f.type = "literal" /\ f.lit = "duration"

\* a literal whose value is an object with a toISO method: luxon's DateTime
\* and Duration both have one
HasToISO(f) == f.type = "literal" /\ f.lit \in {"date", "duration"}

IsCallTo(f, names) ==
  f.type = "function" /\ f.func.type = "variable" /\ toLowerCase(f.func.name) \in names

isDateExpression(f) ==
  \/ IsCallTo(f, {"date", "now"})
  \/ (f.type = "literal" /\ f.lit = "date")

filterFunctions ==
  {"contains", "containsAny", "containsAll", "startswith", "endswith", "empty",
   "notEmpty", "hasTag", "hasLink", "inFolder"}

isFilterExpression(f) ==
  CASE f.type = "binaryop" -> f.op \in {"=", "!=", ">", ">=", "<", "<="}
    [] f.type = "function" -> IsCallTo(f, filterFunctions)
    [] f.type = "negated" -> TRUE
    [] OTHER -> FALSE

isLogicalObject(value) == IsObj(value) /\ value.key \in {"and", "or"}

RECURSIVE isFormulaField(_)
isFormulaField(f) ==
  CASE f.type = "variable" -> FALSE
    [] f.type = "index" -> isFormulaField(f.object)
    [] OTHER -> TRUE

isDateLikeExpression(f) ==
  /\ f.type = "binaryop" /\ f.op = "-"
  /\ f.right.type = "binaryop" /\ f.right.op = "-"
  /\ IsNumberLit(f.left) /\ IsNumberLit(f.right.left) /\ IsNumberLit(f.right.right)
  /\ LET year == f.left.number
         month == f.right.left.number
         day == f.right.right.number
     IN /\ NumGeqInt(year, 1900) /\ NumLeqInt(year, 2100)
        /\ NumGeqInt(month, 1) /\ NumLeqInt(month, 12)
        /\ NumGeqInt(day, 1) /\ NumLeqInt(day, 31)

\* called only on fields that isDateLikeExpression accepts
extractDateString(f) ==
  NumberToString(f.left.number) \o "-"
    \o padStart(NumberToString(f.right.left.number), 2, "0") \o "-"
    \o padStart(NumberToString(f.right.right.number), 2, "0")

operatorMap ==
  [o \in {"=", "!=", ">", ">=", "<", "<=", "+", "-", "*", "/", "%", "&", "|"} |->
     CASE o = "=" -> "=="
       [] o = "&" -> "&&"
       [] o = "|" -> "||"
       [] OTHER -> o]

functionMap ==
  [n \in {"round", "floor", "ceil", "abs", "min", "max", "sum", "avg", "length",
          "contains", "containsany", "containsall", "startswith", "endswith",
          "empty", "notempty", "dateformat", "date", "now", "dur", "year",
          "month", "day", "hour", "minute", "second", "millisecond", "tofixed",
          "tostring", "trim", "title", "split", "replace", "slice", "reverse",
          "join", "sort", "flat", "unique"} |->
     CASE n = "avg" -> "average"
       [] n = "containsany" -> "containsAny"
       [] n = "containsall" -> "containsAll"
       [] n = "startswith" -> "startsWith"
       [] n = "endswith" -> "endsWith"
       [] n = "empty" -> "isEmpty"
       [] n = "notempty" -> "!isEmpty"
       [] n = "dateformat" -> "format"
       [] n = "dur" -> "duration"
       [] n = "tofixed" -> "toFixed"
       [] n = "tostring" -> "toString"
       [] OTHER -> n]

dateAccessors == {"year", "month", "day", "hour", "minute", "second", "millisecond"}

(***************************************************************************)
(* DataviewToBasesTransformer: lowering of Field trees.  A lowering gives  *)
(* Str, Obj, or Throw when a JavaScript TypeError ends the call.  A value  *)
(* the code holds in a local variable is a parameter of the operator that  *)
(* models the code after the assignment.                                   *)
(***************************************************************************)
RECURSIVE transformFieldExpression(_)

RECURSIVE TransformAll(_, _)

NoValues == [thrown |-> FALSE, error |-> Null, values |-> <<>>]

\* one step of fields.map(...): v is the lowering of the first field left
TransformAllNext(fields, done, v) ==
  IF IsThrow(v) THEN [thrown |-> TRUE, error |-> v, values |-> <<>>]
  ELSE TransformAll(Tail(fields), Append(done, v))

\* fields.map(f => transformFieldExpression(f)), left to right: the array of
\* lowered values, or the first exception
TransformAll(fields, done) ==
  IF fields = <<>> THEN [NoValues EXCEPT !.values = done]
  ELSE TransformAllNext(fields, done, transformFieldExpression(Head(fields)))

\* the dynamic index access of transformIndexField, i being the lowered index
DynamicIndex(object, i) ==
  IF IsThrow(i) THEN i ELSE Str(Interp(object) \o "[" \o Interp(i) \o "]")

\* transformIndexField after the object is lowered
IndexFieldOf(index, object) ==
  IF IsThrow(object) THEN object
  ELSE IF index.type = "literal" /\ index.lit = "string" THEN
    IF toLowerCase(index.str) \in dateAccessors
      THEN Str(Interp(object) \o "." \o toLowerCase(index.str))
    ELSE mapDataviewPropertyToBaseProperty(Interp(object) \o "." \o index.str)
  ELSE DynamicIndex(object, transformFieldExpression(index))

transformIndexField(f) == IndexFieldOf(f.index, transformFieldExpression(f.object))

\* a negation that cancels a double negation
transformNegated_cancel(negatedChild) ==
  IF IsObj(negatedChild) /\ negatedChild.key = "not" THEN negatedChild.list[1]
  ELSE Obj("not", <<negatedChild>>)

\* the "negated" case of transformFieldExpression, for the lowered child
transformNegated(negatedChild) == Obj("not", <<negatedChild>>)

\* durationStr of transformBinaryOp: the lowered duration without its quotes
Unquoted(right) ==
  IF startsWith(right, "\"") /\ endsWith(right, "\"")
    THEN SubSeq(right, 2, Len(right) - 1)
  ELSE right

\* durationStr after the negation for a subtraction
SignedDuration(op, durationStr) ==
  IF op = "-" /\ ~startsWith(durationStr, "-") THEN "-" \o durationStr ELSE durationStr

\* the date +/- duration branch of transformBinaryOp
DateArithmetic(op, left, right) ==
  IF ~IsStr(right) THEN Throw("durationStr.startsWith is not a function")
  ELSE Str(Interp(left) \o " + \"" \o SignedDuration(op, Unquoted(right.s)) \o "\"")

InfixText(left, operator, right) ==
  Str(Interp(left) \o " " \o operator \o " " \o Interp(right))

isLeftDate(f) == isDateExpression(f.left) \/ IsCallTo(f.left, {"date"})

isRightDuration(f) == IsCallTo(f.right, {"dur"}) \/ HasToISO(f.right)

\* a logical branch that looks only at the shape of the operands, not at
\* what they lowered to
LogicalOp_operands(f, left, right) ==
  IF isFilterExpression(f.left) \/ isFilterExpression(f.right)
    THEN flattenLogicalOperations(IF f.op = "&" THEN "and" ELSE "or", <<left, right>>)
  ELSE InfixText(left, operatorMap[f.op], right)

\* the logical branch of transformBinaryOp
LogicalOp(f, left, right) ==
  IF \/ isFilterExpression(f.left) \/ isFilterExpression(f.right)
     \/ isLogicalObject(left) \/ isLogicalObject(right)
    THEN flattenLogicalOperations(IF f.op = "&" THEN "and" ELSE "or", <<left, right>>)
  ELSE InfixText(left, operatorMap[f.op], right)

\* transformBinaryOp after both operands are lowered
BinaryOpOf(f, left, right) ==
  IF IsThrow(left) THEN left
  ELSE IF IsThrow(right) THEN right
  ELSE IF f.op \in {"&", "|"} THEN LogicalOp(f, left, right)
  ELSE IF f.op \in {"+", "-"} /\ isLeftDate(f) /\ isRightDuration(f)
    THEN DateArithmetic(f.op, left, right)
  ELSE IF f.op \in {"+", "-"} /\ isLeftDate(f) /\ isDateExpression(f.right)
    THEN InfixText(left, "-", right)
  ELSE IF f.op = "+" /\ f.right.type = "literal" /\ f.right.lit = "string"
    THEN InfixText(left, "+", right)
  ELSE InfixText(left,
                 IF f.op \in DOMAIN operatorMap THEN operatorMap[f.op]
                 ELSE IF f.op \in InheritedKeys THEN Inherited(f.op).s
                 ELSE f.op,
                 right)

transformBinaryOp(f) ==
  BinaryOpOf(f, transformFieldExpression(f.left), transformFieldExpression(f.right))

\* the unit name of dur(...) after pluralisation
UnitName(numVal, unit) ==
  IF numVal # 1 /\ ~endsWith(unit, "s") THEN unit \o "s"
  ELSE IF numVal = 1 /\ endsWith(unit, "s") THEN SubSeq(unit, 1, Len(unit) - 1)
  ELSE unit

\* a normalisation that keeps weeks as they are
DurationOfMatch_keepWeeks(m, numVal, unit) ==
  "\"" \o m.num \o " " \o UnitName(numVal, unit) \o "\""

\* the normalisation of dur(...) in transformFunction, for the match m of
\* its one lowered argument
DurationOfMatch(m, numVal, unit) ==
  IF startsWith(unit, "week")
    THEN "\"" \o ToString(numVal * 7) \o " day" \o Plural(numVal * 7) \o "\""
  ELSE "\"" \o m.num \o " " \o UnitName(numVal, unit) \o "\""

DurationString(m) == DurationOfMatch(m, parseInt(m.num).int, toLowerCase(m.unit))

\* date(k) for the keywords today, tomorrow and yesterday
DateKeyword(k) ==
  CASE k = "today" -> "now()"
    [] k = "tomorrow" -> "now() + \"1 day\""
    [] k = "yesterday" -> "now() + \"-1 day\""

DateKeywords == {"today", "tomorrow", "yesterday"}

funcNameOf(f) ==
  IF f.func.type = "variable" THEN f.func.name
  ELSE IF f.func.type = "literal" /\ f.func.lit = "string" THEN f.func.str
  ELSE ""

\* functionMap[lname] || funcName, as the text the lowering writes: a key
\* that functionMap inherits from Object.prototype gives the inherited value
basesFuncOf(funcName, lname) ==
  IF lname \in DOMAIN functionMap THEN functionMap[lname]
  ELSE IF lname \in InheritedKeys THEN Inherited(lname).s
  ELSE funcName

GenericCall(basesFunc, args) == Str(basesFunc \o "(" \o join(args, ", ") \o ")")

\* the "duration" case of transformFunction, m being the match of the argument
DurationCall(basesFunc, args, m) ==
  IF m.matched THEN Str(DurationString(m)) ELSE GenericCall(basesFunc, args)

\* a "date" case without the keywords
DateCall_literal(arg, dateArg) == Str("date(" \o arg \o ")")

\* the "date" case of transformFunction, dateArg being the unquoted argument
DateCall(arg, dateArg) ==
  IF dateArg \in DateKeywords THEN Str(DateKeyword(dateArg))
  ELSE Str("date(" \o arg \o ")")

\* transformFunction after the arguments are lowered
FunctionArgs(basesFunc, n, args) ==
  IF basesFunc = "contains" /\ n = 2 /\ args[1] = Str("tags") THEN
    IF ~IsStr(args[2]) THEN Throw("args[1].replace is not a function")
    ELSE Str("file.hasTag(\"" \o stripQuotes(args[2].s) \o "\")")
  ELSE IF basesFunc = "date" /\ n = 1 THEN
    IF ~IsStr(args[1]) THEN Throw("args[0].replace is not a function")
    ELSE DateCall(args[1].s, toLowerCase(stripQuotes(args[1].s)))
  ELSE IF basesFunc = "duration" /\ n = 1 THEN
    IF ~IsStr(args[1]) THEN Throw("args[0].match is not a function")
    ELSE DurationCall(basesFunc, args, DurMatch(args[1].s))
  ELSE IF basesFunc = "!isEmpty"
    THEN Str("!(" \o join(args, ", ") \o ".isEmpty())")
  ELSE GenericCall(basesFunc, args)

\* the link(...) case of transformFunction
LinkCall(n, args) ==
  Str("link(" \o Interp(args[1]) \o (IF n = 2 THEN ", " \o Interp(args[2]) ELSE "") \o ")")

\* the part of transformFunction that lowers the arguments; all is their lowering
FunctionLowered(lname, basesFunc, n, all) ==
  IF all.thrown THEN all.error
  ELSE IF lname = "link" /\ n \in {1, 2} THEN LinkCall(n, all.values)
  ELSE FunctionArgs(basesFunc, n, all.values)

\* the date(today|tomorrow|yesterday) shortcut, k being the lower-cased variable name
IsDateKeywordCall(f, basesFunc, n) ==
  /\ basesFunc = "date" /\ n = 1
  /\ f.arguments[1].type = "variable"
  /\ toLowerCase(f.arguments[1].name) \in DateKeywords

\* transformFunction after the function name is mapped
FunctionOf(f, lname, basesFunc, n) ==
  IF lname = "link" /\ n \in {1, 2}
    THEN FunctionLowered(lname, basesFunc, n, TransformAll(f.arguments, <<>>))
  ELSE IF IsDateKeywordCall(f, basesFunc, n)
    THEN Str(DateKeyword(toLowerCase(f.arguments[1].name)))
  ELSE IF basesFunc = "date" /\ n = 1 /\ isDateLikeExpression(f.arguments[1])
    THEN Str("date(\"" \o extractDateString(f.arguments[1]) \o "\")")
  ELSE FunctionLowered(lname, basesFunc, n, TransformAll(f.arguments, <<>>))

FunctionNamed(f, funcName, lname) ==
  FunctionOf(f, lname, basesFuncOf(funcName, lname), Len(f.arguments))

FunctionCalled(f, funcName) == FunctionNamed(f, funcName, toLowerCase(funcName))

transformFunction(f) == FunctionCalled(f, funcNameOf(f))

\* the "negated" case after the child is lowered
NegatedOf(negatedChild) ==
  IF IsThrow(negatedChild) THEN negatedChild ELSE transformNegated(negatedChild)

\* the "list" case after the items are lowered
ListOf(listItems) ==
  IF listItems.thrown THEN listItems.error
  ELSE Str("[" \o join(listItems.values, ", ") \o "]")

transformFieldExpression(f) ==
  CASE f.type = "variable" -> mapDataviewPropertyToBaseProperty(f.name)
    [] f.type = "literal" -> Str(transformLiteral(f))
    [] f.type = "index" -> transformIndexField(f)
    [] f.type = "binaryop" -> transformBinaryOp(f)
    [] f.type = "function" -> transformFunction(f)
    [] f.type = "negated" -> NegatedOf(transformFieldExpression(f.child))
    [] f.type = "list" -> ListOf(TransformAll(f.values, <<>>))
    [] OTHER -> Str("")

(***************************************************************************)
(* DataviewToBasesTransformer: the configuration object and transform.     *)
(* An optional key of a JavaScript object is the empty sequence when the   *)
(* key is absent and a one-element sequence when it is set; an object used *)
(* as a map is the sequence of its entries in the order Object.keys lists  *)
(* them: the integer-like keys in ascending order, then the other keys in  *)
(* insertion order.                                                        *)
(***************************************************************************)
Absent == <<>>

Present(x) == <<x>>

Has(o) == o # <<>>

Get(o) == o[1]

Keys(m) == {m[i].k : i \in DOMAIN m}

Lookup(m, k) == (CHOOSE i \in DOMAIN m : m[i].k = k)

RECURSIVE DigitsLess(_, _)
\* a < b for two digit strings of one length
DigitsLess(a, b) ==
  IF a = "" THEN FALSE
  ELSE IF CharAt(a, 1) # CharAt(b, 1)
    THEN IndexOfChar(Digits, CharAt(a, 1), 1) < IndexOfChar(Digits, CharAt(b, 1), 1)
  ELSE DigitsLess(Tail(a), Tail(b))

\* a < b for two decimal numerals without leading zeros
IndexLess(a, b) == Len(a) < Len(b) \/ (Len(a) = Len(b) /\ DigitsLess(a, b))

\* an integer-like key: the canonical numeral of an integer from 0 to 2^32 - 2
IsIndexKey(k) ==
  /\ k # "" /\ DigitRunEnd(k, 1) = Len(k)
  /\ k = "0" \/ CharAt(k, 1) # "0"
  /\ IndexLess(k, "4294967295")

\* m with the new entry e: after the smaller integer-like keys when its key is
\* integer-like, at the end otherwise
Inserted(m, e) ==
  IF IsIndexKey(e.k)
    THEN LET n == Cardinality({i \in DOMAIN m :
                                 IsIndexKey(m[i].k) /\ IndexLess(m[i].k, e.k)})
         IN SubSeq(m, 1, n) \o <<e>> \o SubSeq(m, n + 1, Len(m))
  ELSE Append(m, e)

\* m[k] = v for the values the transformer stores; an assignment to __proto__
\* goes to the setter of Object.prototype and adds no key
Put(m, k, v) ==
  IF k = "__proto__" THEN m
  ELSE IF k \in Keys(m) THEN [m EXCEPT ![Lookup(m, k)] = [k |-> k, v |-> v]]
  ELSE Inserted(m, [k |-> k, v |-> v])

DefaultView ==
  [type |-> "table", name |-> "Default view", limit |-> Absent, filters |-> Absent,
   order |-> Absent, group_by |-> Absent, sort |-> Absent]

NewResult ==
  [views |-> <<DefaultView>>, display |-> Absent, formulas |-> Absent, filters |-> Absent]

Returned(value) == [t |-> "returned", value |-> value]

\* the formula branch of transformNamedField
FormulaColumn(displayName, formulaKey, formula) ==
  [thrown |-> FALSE, fieldName |-> Str("formula." \o formulaKey), displayName |-> displayName,
   isFormula |-> TRUE, formula |-> formula, formulaKey |-> formulaKey]

\* transformNamedField after the field is lowered; fieldName is the lowered
\* value as it is: a string, or the function or object a name inherited from
\* Object.prototype lowers to
NamedFieldOf(namedField, lowered_) ==
  IF IsThrow(lowered_) THEN [thrown |-> TRUE, error |-> lowered_]
  ELSE IF isFormulaField(namedField.field)
    THEN FormulaColumn(namedField.name,
                       replaceSpaceRuns(toLowerCase(namedField.name), "_"), lowered_)
  ELSE [thrown |-> FALSE, fieldName |-> lowered_, displayName |-> namedField.name,
        isFormula |-> FALSE, formula |-> Null, formulaKey |-> ""]

transformNamedField(namedField) ==
  NamedFieldOf(namedField, transformFieldExpression(namedField.field))

RECURSIVE HeaderFields(_, _)

\* the body of the forEach of transformHeader, for one transformed column:
\* the key of display is the text of fieldName, order holds fieldName itself
HeaderField(fields, acc, transformed) ==
  IF transformed.thrown THEN [acc EXCEPT !.thrown = TRUE, !.error = transformed.error]
  ELSE HeaderFields(Tail(fields),
         [acc EXCEPT
            !.display = Put(@, Interp(transformed.fieldName), transformed.displayName),
            !.columnOrder = Append(@, transformed.fieldName),
            !.formulas =
              IF transformed.isFormula /\ ~Falsy(transformed.formula)
                 /\ transformed.formulaKey # ""
                THEN Put(@, transformed.formulaKey, transformed.formula)
              ELSE @])

\* the forEach of transformHeader over the fields not yet visited; acc holds
\* display, columnOrder and formulas
HeaderFields(fields, acc) ==
  IF fields = <<>> THEN acc
  ELSE HeaderField(fields, acc, transformNamedField(Head(fields)))

\* a start of the forEach that forgets the identity column
HeaderStart_noId(showId) ==
  [thrown |-> FALSE, error |-> Null, display |-> <<>>, columnOrder |-> <<>>,
   formulas |-> <<>>]

\* display and columnOrder of transformHeader before the forEach
HeaderStart(showId) ==
  [thrown |-> FALSE, error |-> Null,
   display |-> IF showId THEN <<[k |-> "file.name", v |-> "Name"]>> ELSE <<>>,
   columnOrder |-> IF showId THEN <<Str("file.name")>> ELSE <<>>,
   formulas |-> <<>>]

\* the end of the "table" case of transformHeader, acc being what the forEach built
HeaderDone(res, acc) ==
  IF acc.thrown THEN acc.error
  ELSE Returned([res EXCEPT
         !.display = Present(acc.display),
         !.views[1].order = Present(acc.columnOrder),
         !.formulas = IF acc.formulas # <<>> THEN Present(acc.formulas) ELSE @])

\* a header handler that coerces every header to the table shape
transformHeader_coerce(header, res) ==
  IF header.type = "table" /\ Len(header.fields) > 0
    THEN Returned([res EXCEPT !.display = Present(<<>>), !.views[1].order = Present(<<>>)])
  ELSE Returned(res)

HeaderKeyword(type) ==
  CASE type = "list" -> "LIST"
    [] type = "task" -> "TASK"
    [] type = "calendar" -> "CALENDAR"

\* transformHeader(header, result): the updated result, or the exception
transformHeader(header, res) ==
  IF header.type = "table" THEN
    IF Len(header.fields) > 0
      THEN HeaderDone(res, HeaderFields(header.fields, HeaderStart(header.showId)))
    ELSE IF header.showId
      THEN Returned([res EXCEPT
             !.display = Present(<<[k |-> "file.name", v |-> "Name"]>>),
             !.views[1].order = Present(<<Str("file.name")>>)])
    ELSE Returned(res)
  ELSE IF header.type \in {"list", "task", "calendar"}
    THEN Throw(HeaderKeyword(header.type)
               \o " queries are not supported. Please use TABLE queries instead.")
  ELSE Returned(res)

transformWhereClause(whereStep) == transformFieldExpression(whereStep.clause)

RECURSIVE SortFields(_, _)

\* one step of the map of transformSortClause, column being the lowered sort key
SortField(fields, done, column) ==
  IF IsThrow(column) THEN column
  ELSE SortFields(Tail(fields),
         Append(done, [column |-> column,
                       direction |-> IF Head(fields).direction = "ascending"
                                       THEN "asc" ELSE "desc"]))

\* the map of transformSortClause over the sort fields not yet visited
SortFields(fields, done) ==
  IF fields = <<>> THEN Returned(done)
  ELSE SortField(fields, done, transformFieldExpression(Head(fields).field))

SortSet(view, sortFields) ==
  IF IsThrow(sortFields) THEN sortFields
  ELSE Returned([view EXCEPT !.sort = Present(sortFields.value)])

\* each clause handler gives the updated view, or the exception
transformSortClause(sortStep, view) == SortSet(view, SortFields(sortStep.fields, <<>>))

LimitParsed(view, parsed) ==
  IF ~parsed.nan
    THEN Returned([view EXCEPT !.limit = Present(Fraction(parsed.neg, Abs(parsed.int), ""))])
  ELSE Returned(view)

\* the dynamic branch of transformLimitClause, limitExpr being the lowered amount
LimitDynamic(view, limitExpr) ==
  IF IsThrow(limitExpr) THEN limitExpr
  ELSE LimitParsed(view, parseInt(Interp(limitExpr)))

transformLimitClause(limitStep, view) ==
  IF IsNumberLit(limitStep.amount)
    THEN Returned([view EXCEPT !.limit = Present(limitStep.amount.number)])
  ELSE LimitDynamic(view, transformFieldExpression(limitStep.amount))

GroupSet(view, groupField) ==
  IF IsThrow(groupField) THEN groupField
  ELSE Returned([view EXCEPT !.group_by = Present(groupField)])

transformGroupClause(groupStep, view) ==
  GroupSet(view, transformFieldExpression(groupStep.field.field))

\* the state of the loop of transform after a clause handler returned r
ViewStep(acc, r) ==
  IF IsThrow(r) THEN [acc EXCEPT !.thrown = TRUE, !.error = r]
  ELSE [acc EXCEPT !.view = r.value]

\* the state of the loop of transform after a Where clause lowered to w
WhereStepDone(acc, w) ==
  IF IsThrow(w) THEN [acc EXCEPT !.thrown = TRUE, !.error = w]
  ELSE [acc EXCEPT !.whereFilters = w]

\* the switch of transform on one operation
Operation(operation, acc) ==
  CASE operation.type = "where" -> WhereStepDone(acc, transformWhereClause(operation))
    [] operation.type = "sort" -> ViewStep(acc, transformSortClause(operation, acc.view))
    [] operation.type = "limit" -> ViewStep(acc, transformLimitClause(operation, acc.view))
    [] operation.type = "group" -> ViewStep(acc, transformGroupClause(operation, acc.view))
    [] OTHER -> acc

RECURSIVE Operations(_, _)
\* the loop of transform over the operations not yet visited; acc holds
\* whereFilters and the view
Operations(operations, acc) ==
  IF operations = <<>> \/ acc.thrown THEN acc
  ELSE Operations(Tail(operations), Operation(Head(operations), acc))

\* an end of transform that stores the combined filter in both places
PlaceFilters_both(res, inView, combinedFilters) ==
  IF Falsy(combinedFilters) THEN Returned(res)
  ELSE Returned([res EXCEPT !.views[1].filters = Present(combinedFilters),
                            !.filters = Present(combinedFilters)])

\* the end of transform: where the combined filter is stored
PlaceFilters(res, inView, combinedFilters) ==
  IF Falsy(combinedFilters) THEN Returned(res)
  ELSE IF inView THEN Returned([res EXCEPT !.views[1].filters = Present(combinedFilters)])
  ELSE Returned([res EXCEPT !.filters = Present(combinedFilters)])

\* transform after the loop over the operations
TransformDone(res, inView, sourceFilters, ops) ==
  IF ops.thrown THEN ops.error
  ELSE PlaceFilters([res EXCEPT !.views[1] = ops.view], inView,
                    combineFilters(sourceFilters, ops.whereFilters))

OperationsStart(view) ==
  [thrown |-> FALSE, error |-> Null, whereFilters |-> Null, view |-> view]

\* transform after transformHeader
TransformFrom(q, inView, header) ==
  IF IsThrow(header) THEN header
  ELSE TransformDone(header.value, inView, transformSource(q.source),
                     Operations(q.operations, OperationsStart(header.value.views[1])))

\* a counter that numbers the formula columns and is never reset
formulaCounterAfter_counting(q, counter) ==
  IF q.header.type = "table"
    THEN counter + Cardinality({i \in DOMAIN q.header.fields :
                                  isFormulaField(q.header.fields[i].field)})
  ELSE counter

\* this.formulaCounter when transform(q, ...) ends, counter being its value
\* when the call began: no statement of the class assigns the field
formulaCounterAfter(q, counter) == counter

\* transform(query, placeFiltersInView): Returned(configuration), or the exception
transform(q, inView) == TransformFrom(q, inView, transformHeader(q.header, NewResult))

\* typeof v === "function", for what a name inherits from Object.prototype
IsFunction(v) == v.t = "builtin" /\ v.s # "[object Object]"

RECURSIVE HoldsFunction(_)
\* a function is the value or sits in a list of the value
HoldsFunction(v) ==
  IF IsObj(v) THEN \E i \in DOMAIN v.list : HoldsFunction(v.list[i])
  ELSE IsFunction(v)

\* the values of a configuration that are lowered expressions: the filters,
\* the entries of order, group_by, the sort columns and the formulas
LoweredValues(res) ==
  (IF Has(res.filters) THEN {Get(res.filters)} ELSE {})
    \cup (IF Has(res.views[1].filters) THEN {Get(res.views[1].filters)} ELSE {})
    \cup (IF Has(res.views[1].order)
            THEN {Get(res.views[1].order)[i] : i \in DOMAIN Get(res.views[1].order)}
          ELSE {})
    \cup (IF Has(res.views[1].group_by) THEN {Get(res.views[1].group_by)} ELSE {})
    \cup (IF Has(res.views[1].sort)
            THEN {Get(res.views[1].sort)[i].column : i \in DOMAIN Get(res.views[1].sort)}
          ELSE {})
    \cup (IF Has(res.formulas)
            THEN {Get(res.formulas)[i].v : i \in DOMAIN Get(res.formulas)}
          ELSE {})

RECURSIVE Dumped(_)
\* what the document holds for a value: Object.prototype, which has no own
\* key, is written as the empty map {}
Dumped(v) ==
  IF IsObj(v) THEN Obj(v.key, [i \in DOMAIN v.list |-> Dumped(v.list[i])])
  ELSE IF v.t = "builtin" THEN Map(<<>>)
  ELSE v

\* Dumped under an optional key
DumpedKey(o) == IF Has(o) THEN Present(Dumped(Get(o))) ELSE o

DumpedView(view) ==
  [view EXCEPT
     !.filters = DumpedKey(@),
     !.order = IF Has(@) THEN Present([i \in DOMAIN Get(@) |-> Dumped(Get(@)[i])]) ELSE @,
     !.group_by = DumpedKey(@),
     !.sort = IF Has(@)
                THEN Present([i \in DOMAIN Get(@) |->
                                [Get(@)[i] EXCEPT !.column = Dumped(@)]])
              ELSE @]

\* yaml.dump(object) for an object that holds no function: the YAML
\* document, held as the object it encodes
Yaml(object) ==
  [t |-> "yaml",
   doc |-> [object EXCEPT
              !.filters = DumpedKey(@),
              !.views = [i \in DOMAIN @ |-> DumpedView(@[i])],
              !.formulas = IF Has(@)
                             THEN Present([i \in DOMAIN Get(@) |->
                                             [Get(@)[i] EXCEPT !.v = Dumped(@)]])
                           ELSE @]]

\* toYaml after transform: yaml.dump raises a YAMLException on a function
YamlOf(basesObject) ==
  IF IsThrow(basesObject) THEN basesObject
  ELSE IF \E v \in LoweredValues(basesObject.value) : HoldsFunction(v)
    THEN Throw("unacceptable kind of an object to dump [object Function]")
  ELSE Returned(Yaml(basesObject.value))

toYaml(q, inView) == YamlOf(transform(q, inView))

Success(value) == [successful |-> TRUE, value |-> value]

Failure(error) == [successful |-> FALSE, error |-> error]

\* what a callback returns for its arguments
Invoke(f, args) ==
  CASE f = "increment" -> args[1] + 1
    [] f = "square" -> args[1] * args[1]
    [] f = "halve" -> IF args[1] % 2 = 0 THEN Success(args[1] \div 2) ELSE Failure("odd")
    [] f = "reject" -> Failure("rejected")
    [] f = "describe" -> "parse: " \o args[1]
    [] f = "length" -> Len(args[1])
    [] f = "divide" -> IF args[2] = 0 THEN Failure("division by zero")
                       ELSE Success(args[1] \div args[2])
    [] f = "add" -> Success(args[1] + args[2])

\* what a method returns and the argument lists its callback was invoked with
Answer(returns, invoked) == [returns |-> returns, invoked |-> invoked]

\* Success.map and Failure.map
map(receiver, f) ==
  IF receiver.successful
    THEN Answer(Success(Invoke(f, <<receiver.value>>)), <<(<<receiver.value>>)>>)
  ELSE Answer(receiver, <<>>)

\* Success.flatMap and Failure.flatMap
flatMap(receiver, f) ==
  IF receiver.successful
    THEN Answer(Invoke(f, <<receiver.value>>), <<(<<receiver.value>>)>>)
  ELSE Answer(receiver, <<>>)

\* Success.mapErr and Failure.mapErr
mapErr(receiver, f) ==
  IF receiver.successful THEN Answer(receiver, <<>>)
  ELSE Answer(Failure(Invoke(f, <<receiver.error>>)), <<(<<receiver.error>>)>>)

\* Success.cast and Failure.cast
cast(receiver) == Answer(receiver, <<>>)

\* a flatMap2 that looks at second before first
flatMap2_secondFirst(first, second, f) ==
  IF second.successful
    THEN IF first.successful
           THEN Answer(Invoke(f, <<first.value, second.value>>),
                       <<(<<first.value, second.value>>)>>)
         ELSE Answer(Failure(first.error), <<>>)
  ELSE Answer(Failure(second.error), <<>>)

\* Result.flatMap2(first, second, f)
flatMap2(first, second, f) ==
  IF first.successful
    THEN IF second.successful
           THEN Answer(Invoke(f, <<first.value, second.value>>),
                       <<(<<first.value, second.value>>)>>)
         ELSE Answer(Failure(second.error), <<>>)
  ELSE Answer(Failure(first.error), <<>>)

\* the try block of parseDataviewTable
TryConvert(parsed, inView) ==
  IF ~parsed.successful
    THEN Throw("Failed to parse Dataview query: " \o parsed.error)
  ELSE toYaml(parsed.value, inView)

\* the catch block of parseDataviewTable
CatchError(attempt) ==
  IF IsThrow(attempt)
    THEN Returned(Str("# Error parsing Dataview query: " \o attempt.msg))
  ELSE attempt

\* an entry point without the try/catch around the transformer
parseDataviewTable_nocatch(parsed, inView) ==
  IF ~parsed.successful
    THEN Returned(Str("# Error parsing Dataview query: Failed to parse Dataview query: "
                      \o parsed.error))
  ELSE toYaml(parsed.value, inView)

\* parseDataviewTable(dataviewQuery, placeFiltersInView), given what
\* parseQuery(dataviewQuery) returned: the string it returns
parseDataviewTable(parsed, inView) == CatchError(TryConvert(parsed, inView))

(***************************************************************************)
(* BasesUpdater.updateFilterExpression: a chain of global regular          *)
(* expression replacements on the text of a filter.  A pattern is a        *)
(* sequence of elements (a literal text, a greedy run of a character       *)
(* class, a word boundary) matched with backtracking, as the JavaScript    *)
(* engine does; a replacement is a sequence of texts and group references. *)
(***************************************************************************)
Lit(s) == [k |-> "lit", s |-> s, min |-> 0, cap |-> FALSE]

\* a greedy run of at least min characters of a class, captured or not
Run(cls, min, cap) == [k |-> "run", s |-> cls, min |-> min, cap |-> cap]

WordB == [k |-> "wb", s |-> "", min |-> 0, cap |-> FALSE]

\* \w
IsWordChar(c) == IsLetter(c) \/ IsDigit(c) \/ c = "_"

InClass(cls, c) ==
  CASE cls = "space" -> IsSpace(c)
    [] cls = "word" -> IsWordChar(c)
    [] cls = "notParen" -> c # ")"
    [] cls = "notQuote" -> c # "\""
    [] cls = "notComma" -> c # ","

RECURSIVE RunLength(_, _, _)
\* the number of consecutive characters of the class in s from position i
RunLength(cls, s, i) ==
  IF i <= Len(s) /\ InClass(cls, CharAt(s, i)) THEN 1 + RunLength(cls, s, i + 1) ELSE 0

\* \b before position i of s
WordBoundaryAt(s, i) ==
  (i > 1 /\ IsWordChar(CharAt(s, i - 1))) # (i <= Len(s) /\ IsWordChar(CharAt(s, i)))

NoMatch == [ok |-> FALSE, end |-> 0, caps |-> <<>>]

RECURSIVE MatchFrom(_, _, _, _)

RECURSIVE TryRun(_, _, _, _, _)

\* the run took n characters: keep it if the rest of the pattern matches,
\* give one character back otherwise
TryRunWith(pat, s, i, n, caps, rest) ==
  IF rest.ok THEN rest ELSE TryRun(pat, s, i, n - 1, caps)

TryRun(pat, s, i, n, caps) ==
  IF n < Head(pat).min THEN NoMatch
  ELSE TryRunWith(pat, s, i, n, caps,
         MatchFrom(Tail(pat), s, i + n,
                   IF Head(pat).cap THEN Append(caps, SubSeq(s, i, i + n - 1)) ELSE caps))

\* the match of the pattern at position i of s: its end (the position after
\* it) and its captured groups
MatchFrom(pat, s, i, caps) ==
  IF pat = <<>> THEN [ok |-> TRUE, end |-> i, caps |-> caps]
  ELSE CASE Head(pat).k = "lit" ->
              IF i + Len(Head(pat).s) - 1 <= Len(s)
                 /\ SubSeq(s, i, i + Len(Head(pat).s) - 1) = Head(pat).s
                THEN MatchFrom(Tail(pat), s, i + Len(Head(pat).s), caps)
              ELSE NoMatch
         [] Head(pat).k = "wb" ->
              IF WordBoundaryAt(s, i) THEN MatchFrom(Tail(pat), s, i, caps) ELSE NoMatch
         [] Head(pat).k = "run" -> TryRun(pat, s, i, RunLength(Head(pat).s, s, i), caps)

\* a piece of a replacement: a text, or the group $g
Text(s) == [g |-> 0, s |-> s]

Group(g) == [g |-> g, s |-> ""]

RECURSIVE Fill(_, _)
Fill(parts, caps) ==
  IF parts = <<>> THEN ""
  ELSE (IF Head(parts).g = 0 THEN Head(parts).s ELSE caps[Head(parts).g])
       \o Fill(Tail(parts), caps)

\* the replacement function of the .join() replace of convertStringConcatenation
JoinMethod(arrayName, separator) ==
  IF separator = "" THEN arrayName ELSE arrayName \o ".join(\"" \o separator \o "\")"

Replacement(rep, caps) ==
  IF rep = <<>> THEN JoinMethod(caps[1], caps[2]) ELSE Fill(rep, caps)

RECURSIVE ReplaceAll(_, _, _, _)

\* the text from i up to the match m found at position k is kept, the match
\* is replaced, and the search goes on after it
ReplaceStep(s, pat, rep, i, k, m) ==
  SubSeq(s, i, k - 1) \o Replacement(rep, m.caps) \o ReplaceAll(s, pat, rep, m.end)

Least(S) == CHOOSE x \in S : \A y \in S : x <= y

ReplaceFound(s, pat, rep, i, k) == ReplaceStep(s, pat, rep, i, k, MatchFrom(pat, s, k, <<>>))

ReplaceNext(s, pat, rep, i, found) ==
  IF found = {} THEN SubSeq(s, i, Len(s)) ELSE ReplaceFound(s, pat, rep, i, Least(found))

\* s.replace(new RegExp(pat, "g"), rep), scanning from position i
ReplaceAll(s, pat, rep, i) ==
  ReplaceNext(s, pat, rep, i, {k \in i..Len(s) : MatchFrom(pat, s, k, <<>>).ok})

\* a function renamed: \bname\( becomes the text to
Rename(name, to) == [pattern |-> <<WordB, Lit(name \o "(")>>, replacement |-> <<Text(to)>>]

\* fn\(file\.file,\s*([^)]+)\) becomes method($1)
FileMethod(fn, method) ==
  [pattern |-> <<Lit(fn \o "(file.file,"), Run("space", 0, FALSE), Run("notParen", 1, TRUE),
                 Lit(")")>>,
   replacement |-> <<Text(method \o "("), Group(1), Text(")")>>]

\* \s+word\s+ becomes the operator between single spaces
Keyword(word, operator) ==
  [pattern |-> <<Run("space", 1, FALSE), Lit(word), Run("space", 1, FALSE)>>,
   replacement |-> <<Text(" " \o operator \o " ")>>]

\* the entries of functionUpdates, in the order Object.entries gives them
functionUpdates ==
  <<FileMethod("inFolder", "file.inFolder"), FileMethod("taggedWith", "file.hasTag"),
    FileMethod("linksTo", "file.hasLink"),
    Keyword("and", "&&"), Keyword("or", "||"),
    [pattern |-> <<Lit("not("), Run("notParen", 1, TRUE), Lit(")")>>,
     replacement |-> <<Text("!("), Group(1), Text(")")>>],
    Rename("len", "length("), Rename("containsAny", "containsAny("),
    Rename("containsAll", "containsAll("), Rename("startswith", "startsWith("),
    Rename("endswith", "endsWith("), Rename("empty", "isEmpty("),
    Rename("notEmpty", "!isEmpty("), Rename("average", "average("),
    Rename("dateFormat", "format("), Rename("dateModify", "+"), Rename("dateDiff", "-"),
    [pattern |-> <<WordB, Lit("file.extension"), WordB>>, replacement |-> <<Text("file.ext")>>],
    [pattern |-> <<Lit("duration(\""), Run("notQuote", 1, TRUE), Lit("\")")>>,
     replacement |-> <<Text("\""), Group(1), Text("\"")>>]>>

RECURSIVE ApplyUpdates(_, _)
\* the for loop of updateFilterExpression over the entries not yet applied
ApplyUpdates(updates, updated) ==
  IF updates = <<>> THEN updated
  ELSE ApplyUpdates(Tail(updates),
                    ReplaceAll(updated, Head(updates).pattern, Head(updates).replacement, 1))

\* text.substring(a, b) with 0-based a and b: the arguments are clamped and
\* swapped when a > b
Substring(text, a, b) ==
  LET lo == IF a < b THEN a ELSE b
      hi == IF a < b THEN b ELSE a
  IN SubSeq(text, (IF lo < 0 THEN 0 ELSE lo) + 1, IF hi > Len(text) THEN Len(text) ELSE hi)

\* the quote state of extractArgumentsFromPosition and parseArguments after
\* the character c that follows prev: "" outside quotes, the quote inside
QuoteAfter(quoteChar, c, prev) ==
  IF (c = "\"" \/ c = "'") /\ prev # "\\" THEN
    IF quoteChar = "" THEN c ELSE IF c = quoteChar THEN "" ELSE quoteChar
  ELSE quoteChar

NoArgs == [found |-> FALSE, args |-> ""]

RECURSIVE ExtractFrom(_, _, _, _, _)

\* one turn of the while loop of extractArgumentsFromPosition, q being the
\* quote state after the character at i (1-based)
ExtractAt(text, open, i, depth, q) ==
  IF q = "" /\ CharAt(text, i) = ")" /\ depth = 1
    THEN [found |-> TRUE, args |-> SubSeq(text, open + 1, i - 1)]
  ELSE ExtractFrom(text, open, i + 1,
         IF q # "" THEN depth
         ELSE IF CharAt(text, i) = "(" THEN depth + 1
         ELSE IF CharAt(text, i) = ")" THEN depth - 1
         ELSE depth, q)

ExtractFrom(text, open, i, depth, quoteChar) ==
  IF i > Len(text) THEN NoArgs
  ELSE ExtractAt(text, open, i, depth,
         QuoteAfter(quoteChar, CharAt(text, i), IF i > 1 THEN CharAt(text, i - 1) ELSE ""))

\* extractArgumentsFromPosition(text, openParenIndex), open being the 1-based
\* position of the parenthesis
extractArgumentsFromPosition(text, open) == ExtractFrom(text, open, open, 0, "")

RECURSIVE ParseFrom(_, _, _, _, _, _)

\* one turn of the for loop of parseArguments, q being the quote state after
\* the character at i
ParseAt(s, i, args, current, depth, q) ==
  IF q = "" /\ CharAt(s, i) = "," /\ depth = 0
    THEN ParseFrom(s, i + 1, Append(args, trim(current)), "", depth, q)
  ELSE ParseFrom(s, i + 1, args, current \o CharAt(s, i),
         IF q # "" THEN depth
         ELSE IF CharAt(s, i) = "(" THEN depth + 1
         ELSE IF CharAt(s, i) = ")" THEN depth - 1
         ELSE depth, q)

ParseFrom(s, i, args, current, depth, quoteChar) ==
  IF i > Len(s) THEN (IF trim(current) # "" THEN Append(args, trim(current)) ELSE args)
  ELSE ParseAt(s, i, args, current, depth,
         QuoteAfter(quoteChar, CharAt(s, i), IF i > 1 THEN CharAt(s, i - 1) ELSE ""))

parseArguments(argsString) == ParseFrom(argsString, 1, <<>>, "", 0, "")

RECURSIVE JoinText(_, _)
\* list.join(sep) for an array of texts
JoinText(list, sep) ==
  IF list = <<>> THEN ""
  ELSE Head(list) \o (IF Len(list) > 1 THEN sep \o JoinText(Tail(list), sep) ELSE "")

\* the callback of the concat() replacement
ConcatCall(args) == JoinText(parseArguments(args), " + ")

\* the callback of the join() replacement, argList being the parsed
\* arguments; separator.slice(1, -1) is empty for a separator of two
\* characters or fewer
JoinCallOf(args, argList) ==
  IF Len(argList) > 0 /\ argList[1] \in {"\"\"", "''"} THEN JoinText(Tail(argList), " + ")
  ELSE IF Len(argList) > 1 THEN
    IF Len(argList[1]) <= 2
      THEN JoinText(Tail(argList), " + ")
    ELSE JoinText(Tail(argList), " + " \o argList[1] \o " + ")
  ELSE args

JoinCall(args) == JoinCallOf(args, parseArguments(args))

CallReplacement(functionName, args) ==
  IF functionName = "concat" THEN ConcatCall(args) ELSE JoinCall(args)

\* \bfunctionName\s*\(
CallPattern(functionName) == <<WordB, Lit(functionName), Run("space", 0, FALSE), Lit("(")>>

NextCallMatchAt(text, functionName, k) ==
  [ok |-> TRUE, start |-> k, end |-> MatchFrom(CallPattern(functionName), text, k, <<>>).end]

NextCallFound(text, functionName, found) ==
  IF found = {} THEN [ok |-> FALSE, start |-> 0, end |-> 0]
  ELSE NextCallMatchAt(text, functionName, Least(found))

\* regex.exec(text) for \bfunctionName\s*\( at or after position i
NextCallMatch(text, functionName, i) ==
  NextCallFound(text, functionName,
                {k \in i..Len(text) : MatchFrom(CallPattern(functionName), text, k, <<>>).ok})

RECURSIVE ReplaceCallsFrom(_, _, _, _, _)

\* the body of the while loop of replaceFunctionCalls for the match m, args
\* being what extractArgumentsFromPosition gave; indices are 0-based as in
\* the code, m.start and m.end 1-based
ReplaceCallsAt(text, functionName, m, lastIndex, res, args) ==
  IF args.found
    THEN ReplaceCallsFrom(text, functionName, m.end,
           (m.end - 2) + Len(args.args) + 2,
           res \o Substring(text, lastIndex, m.start - 1)
               \o CallReplacement(functionName, args.args))
  ELSE ReplaceCallsFrom(text, functionName, m.end, m.end - 1,
         res \o Substring(text, lastIndex, m.start - 1) \o SubSeq(text, m.start, m.end - 1))

ReplaceCallsNext(text, functionName, m, lastIndex, res) ==
  IF ~m.ok THEN res \o Substring(text, lastIndex, Len(text))
  ELSE ReplaceCallsAt(text, functionName, m, lastIndex, res,
                      extractArgumentsFromPosition(text, m.end - 1))

\* replaceFunctionCalls from regex.lastIndex = pos - 1, with lastIndex and
\* result as in the code
ReplaceCallsFrom(text, functionName, pos, lastIndex, res) ==
  ReplaceCallsNext(text, functionName, NextCallMatch(text, functionName, pos), lastIndex, res)

replaceFunctionCalls(text, functionName) == ReplaceCallsFrom(text, functionName, 1, 0, "")

RECURSIVE ConcatLoop(_)

ConcatLoopNext(previousUpdate, updated) ==
  IF updated = previousUpdate THEN updated ELSE ConcatLoop(updated)

\* the while loop of convertStringConcatenation
ConcatLoop(updated) ==
  ConcatLoopNext(updated, replaceFunctionCalls(replaceFunctionCalls(updated, "concat"), "join"))

\* (\w+)\.join\s*\(\s*"([^"]*)"\s*\), replaced by the function JoinMethod
JoinMethodPattern ==
  <<Run("word", 1, TRUE), Lit(".join"), Run("space", 0, FALSE), Lit("("),
    Run("space", 0, FALSE), Lit("\""), Run("notQuote", 0, TRUE), Lit("\""),
    Run("space", 0, FALSE), Lit(")")>>

convertStringConcatenation(expression) ==
  ReplaceAll(ConcatLoop(expression), JoinMethodPattern, <<>>, 1)

\* dateModify\(([^,]+),\s*"([^"]+)"\) becomes $1 + "$2"
DateModifyPattern ==
  <<Lit("dateModify("), Run("notComma", 1, TRUE), Lit(","), Run("space", 0, FALSE),
    Lit("\""), Run("notQuote", 1, TRUE), Lit("\")")>>

\* \+\s*"-([^"]+)" becomes + "-$1"
NegatedDurationPattern ==
  <<Lit("+"), Run("space", 0, FALSE), Lit("\"-"), Run("notQuote", 1, TRUE), Lit("\"")>>

\* updateFilterExpression after the loop over functionUpdates and
\* convertStringConcatenation
DateArithmeticPasses(updated) ==
  ReplaceAll(ReplaceAll(updated, DateModifyPattern,
                        <<Group(1), Text(" + \""), Group(2), Text("\"")>>, 1),
             NegatedDurationPattern, <<Text("+ \"-"), Group(1), Text("\"")>>, 1)

\* BasesUpdater.updateFilterExpression(expression)
updateFilterExpression(expression) ==
  DateArithmeticPasses(convertStringConcatenation(ApplyUpdates(functionUpdates, expression)))

\* the own entries of an array: its indices, as Object.entries lists them
ArrayEntries(items) == [i \in DOMAIN items |-> [k |-> ToString(i - 1), v |-> items[i]]]

RECURSIVE updateFilters(_), UpdatedEntries(_, _)

\* the value updateFilters stores under one key of the object
UpdatedValue(entry) ==
  IF entry.k \in {"and", "or", "not"}
    THEN IF entry.v.t = "arr"
           THEN Arr([i \in DOMAIN entry.v.items |-> updateFilters(entry.v.items[i])])
         ELSE updateFilters(entry.v)
  ELSE entry.v

\* the loop of updateFilters over the entries not yet visited
UpdatedEntries(entries, updated) ==
  IF entries = <<>> THEN updated
  ELSE UpdatedEntries(Tail(entries), Put(updated, Head(entries).k, UpdatedValue(Head(entries))))

\* BasesUpdater.updateFilters(filters): a text is rewritten, an object is
\* copied with what its keys and, or and not hold updated (an array there
\* item by item), an array is copied as an object, any other value is returned
updateFilters(filters) ==
  CASE filters.t = "str" -> Str(updateFilterExpression(filters.s))
    [] filters.t = "map" -> Map(UpdatedEntries(filters.entries, <<>>))
    [] filters.t = "arr" -> Map(UpdatedEntries(ArrayEntries(filters.items), <<>>))
    [] filters.t = "obj" ->
         IF filters.key \in {"and", "or", "not"}
           THEN Obj(filters.key, [i \in DOMAIN filters.list |-> updateFilters(filters.list[i])])
         ELSE filters
    [] filters.t = "builtin" /\ ~IsFunction(filters) -> Map(<<>>)
    [] OTHER -> filters

(***************************************************************************)
(* The legacy text converter: parseDataviewFilters and                     *)
(* parseNestedConditions, which call each other with a depth counter.  One *)
(* activation of either function ends in parseCondition(text) or in calls  *)
(* of the two functions; parseCondition is not entered here, a leaf being  *)
(* the text handed to it.                                                  *)
(***************************************************************************)
DepthLimit == 10

Frame(fn, text, depth) == [fn |-> fn, text |-> text, depth |-> depth]

\* return parseCondition(text)
Leaf(text) == [kind |-> "condition", text |-> text, calls |-> <<>>]

\* return fn(text, depth)
Delegate(fn, text, depth) == [kind |-> "same", text |-> "", calls |-> <<Frame(fn, text, depth)>>]

\* return {kind: texts.map((part) => parseDataviewFilters(part.trim(), depth))}
Each(kind, texts, depth) ==
  [kind |-> kind, text |-> "",
   calls |-> [i \in 1..Len(texts) |-> Frame("parseDataviewFilters", trim(texts[i]), depth)]]

\* s.replace(/\s+/g, " ").trim()
Normalize(s) == trim(replaceSpaceRuns(s, " "))

\* the pattern / word /i matches s at position i
WordAt(s, word, i) ==
  i + Len(word) - 1 <= Len(s) /\ toLowerCase(SubSeq(s, i, i + Len(word) - 1)) = word

RECURSIVE TestWordFrom(_, _, _)
TestWordFrom(s, word, i) ==
  IF i > Len(s) THEN FALSE
  ELSE IF WordAt(s, word, i) THEN TRUE
  ELSE TestWordFrom(s, word, i + 1)

\* / word /i.test(s)
TestWord(s, word) == TestWordFrom(s, word, 1)

IsQuote(c) == c = "\"" \/ c = "'"

PushPart(parts, currentPart) ==
  IF trim(currentPart) # "" THEN Append(parts, trim(currentPart)) ELSE parts

RECURSIVE SplitFrom(_, _, _, _, _, _, _)

\* a character outside the quote handling; parenDepth is already updated
SplitAt(str, word, i, currentPart, parenDepth, quoteChar, parts) ==
  IF quoteChar = "" /\ parenDepth = 0 /\ WordAt(str, word, i)
    THEN SplitFrom(str, word, i + Len(word), "", parenDepth, quoteChar,
                   PushPart(parts, currentPart))
  ELSE SplitFrom(str, word, i + 1, currentPart \o CharAt(str, i), parenDepth, quoteChar, parts)

\* the loop of splitRespectingParentheses at position i; quoteChar is ""
\* outside quotes
SplitFrom(str, word, i, currentPart, parenDepth, quoteChar, parts) ==
  IF i > Len(str) THEN PushPart(parts, currentPart)
  ELSE IF IsQuote(CharAt(str, i)) /\ (i = 1 \/ CharAt(str, i - 1) # "\\")
    THEN SplitFrom(str, word, i + 1, currentPart \o CharAt(str, i), parenDepth,
                   IF quoteChar = "" THEN CharAt(str, i)
                   ELSE IF CharAt(str, i) = quoteChar THEN ""
                   ELSE quoteChar,
                   parts)
  ELSE SplitAt(str, word, i, currentPart,
               IF quoteChar # "" THEN parenDepth
               ELSE IF CharAt(str, i) = "(" THEN parenDepth + 1
               ELSE IF CharAt(str, i) = ")" THEN parenDepth - 1
               ELSE parenDepth,
               quoteChar, parts)

SplitResult(str, parts) == IF Len(parts) > 1 THEN parts ELSE <<str>>

\* splitRespectingParentheses(str, / word /i)
splitRespectingParentheses(str, word) ==
  SplitResult(str, SplitFrom(str, word, 1, "", 0, "", <<>>))

IsCallNameChar(c) == IsLetter(c) \/ IsDigit(c) \/ c = "_" \/ c = "."

RECURSIVE CallNameEnd(_, _)
CallNameEnd(s, i) ==
  IF i <= Len(s) /\ IsCallNameChar(CharAt(s, i)) THEN CallNameEnd(s, i + 1) ELSE i - 1

CallAfter(s, n) == n >= 1 /\ n < Len(s) /\ CharAt(s, n + 1) = "("

\* s.match(/^[a-zA-Z0-9_.]+\(/)
StartsWithCall(s) == CallAfter(s, CallNameEnd(s, 1))

CountAfter(parenCount, c) ==
  IF c = "(" THEN parenCount + 1 ELSE IF c = ")" THEN parenCount - 1 ELSE parenCount

RECURSIVE FullyWrappedFrom(_, _, _)
\* the scan of parseNestedConditions at position i, parenCount being the
\* count before that character
FullyWrappedFrom(s, i, parenCount) ==
  IF i > Len(s) THEN TRUE
  ELSE IF CountAfter(parenCount, CharAt(s, i)) = 0 /\ i < Len(s) THEN FALSE
  ELSE FullyWrappedFrom(s, i + 1, CountAfter(parenCount, CharAt(s, i)))

isFullyWrapped(s) == FullyWrappedFrom(s, 1, 0)

OrParts(text, depth, texts) ==
  IF Len(texts) > 1 THEN Each("or", texts, depth + 1) ELSE Leaf(text)

SplitOnOr(text, depth) ==
  IF TestWord(text, " or ")
    THEN OrParts(text, depth, splitRespectingParentheses(text, " or "))
  ELSE Leaf(text)

AndParts(text, depth, texts) ==
  IF Len(texts) > 1 THEN Each("and", texts, depth + 1) ELSE SplitOnOr(text, depth)

\* the end of both functions: split on AND, else on OR, else one condition
SplitOnLogic(text, depth) ==
  IF TestWord(text, " and ")
    THEN AndParts(text, depth, splitRespectingParentheses(text, " and "))
  ELSE SplitOnOr(text, depth)

FiltersBody(text, depth) ==
  IF includes(text, "(") /\ ~StartsWithCall(text)
    THEN Delegate("parseNestedConditions", text, depth + 1)
  ELSE SplitOnLogic(text, depth)

NestedBody(text, depth) ==
  IF startsWith(text, "(") /\ endsWith(text, ")") /\ isFullyWrapped(text)
    THEN Delegate("parseDataviewFilters", SubSeq(text, 2, Len(text) - 1), depth + 1)
  ELSE SplitOnLogic(text, depth)

\* a parseNestedConditions without its depth guard
parseNestedConditions_unguarded(condition, depth) == NestedBody(Normalize(condition), depth)

\* one activation of parseDataviewFilters(whereStr, depth)
parseDataviewFilters(whereStr, depth) ==
  IF depth > DepthLimit THEN Leaf(whereStr) ELSE FiltersBody(Normalize(whereStr), depth)

\* one activation of parseNestedConditions(condition, depth)
parseNestedConditions(condition, depth) ==
  IF depth > DepthLimit THEN Leaf(condition) ELSE NestedBody(Normalize(condition), depth)

Activation(frame) ==
  IF frame.fn = "parseDataviewFilters" THEN parseDataviewFilters(frame.text, frame.depth)
  ELSE parseNestedConditions(frame.text, frame.depth)

\* the object a call returns, parseCondition(text) standing as [condition: text]
RECURSIVE Returns(_)

ReturnsOf(outcome) ==
  IF outcome.kind = "condition" THEN [condition |-> outcome.text]
  ELSE IF outcome.kind = "same" THEN Returns(outcome.calls[1])
  ELSE [op |-> outcome.kind,
        of |-> [i \in 1..Len(outcome.calls) |-> Returns(outcome.calls[i])]]

Returns(frame) == ReturnsOf(Activation(frame))

(***************************************************************************)
(* Inputs: the bounded sets of Field, Source and Query trees explored.     *)
(***************************************************************************)
MaxDur == 14

MaxCols == 3

MaxOps == 2

FileProp(name) == Index(Variable("file"), StringLit(name))

CondA == BinaryOp("=", Variable("a"), NumberLit(Num(1)))

CondB == BinaryOp("=", Variable("b"), NumberLit(Num(2)))

CondC == BinaryOp("=", Variable("c"), NumberLit(Num(3)))

StatusNotDone == BinaryOp("!=", Variable("status"), StringLit("done"))

Conditions == {CondA, CondB, CondC}

\* contains(tags, "urgent"): a filter function call
TagCall == Call("contains", <<Variable("tags"), StringLit("urgent")>>)

\* contains(tags, !x): the lowering calls replace on a filter object
BadTagCall == Call("contains", <<Variable("tags"), Negated(Variable("x"))>>)

\* operands of the logical operators: comparisons, a filter function call,
\* plain variables, and a call whose lowering throws
Operands == Conditions \cup {TagCall, Variable("done"), Variable("archived"), BadTagCall}

Logical(S, T) == {BinaryOp(op, l, r) : op \in {"&", "|"}, l \in S, r \in T}

Level1 == Operands \cup {Negated(f) : f \in Operands} \cup Logical(Operands, Operands)

Groups == Logical(Conditions, Conditions)

Level2 ==
  {Negated(f) : f \in Level1} \cup Logical(Operands, Level1) \cup Logical(Level1, Operands)
    \cup Logical(Groups, Groups)

DurationUnits == {"years", "months", "weeks", "days", "hours", "minutes", "seconds"}

DurationOf(n, unit) == [NoDuration EXCEPT ![unit] = n]

\* dur(-7 days), dur(-1 weeks) and dur(0 days): a count may be negative or zero
SignedDurations ==
  {DurationLit(DurationOf(-7, "days")), DurationLit(DurationOf(-1, "weeks")),
   DurationLit(NoDuration)}

DurationLits ==
  {DurationLit(DurationOf(n, u)) : n \in 1..MaxDur, u \in DurationUnits}
    \cup SignedDurations

DurationOperands ==
  DurationLits
    \cup {Call("dur", <<d>>) : d \in DurationLits}
    \cup {Call("dur", <<StringLit("7 days")>>), Call("DUR", <<StringLit("1 week")>>),
          Call("dur", <<Variable("span")>>)}

\* the unit spelled without its final s
Singular(unit) == SubSeq(unit, 1, Len(unit) - 1)

\* dur("N unit"), the unit spelled in the singular or in the plural
DurationTexts ==
  {Call("dur", <<StringLit(ToString(n) \o " " \o w)>>) :
     n \in 1..MaxDur, w \in DurationUnits \cup {Singular(u) : u \in DurationUnits}}
    \cup {Call("dur", <<StringLit(t)>>) :
            t \in {"2\tweeks", "1\tday", "3\ndays", "1 \t week", "2weeks",
                   "1" \o VerticalTab \o "day", "2 " \o VerticalTab \o "\fweeks"}}

DateExpressions ==
  {Call("date", <<Variable("today")>>), Call("date", <<Variable("tomorrow")>>),
   Call("DATE", <<StringLit("Yesterday")>>), Call("date", <<StringLit("2024-01-01")>>),
   Call("date", <<Variable("due")>>), Call("now", <<>>), DateLit("2024-01-01")}

DateArithmetics ==
  {BinaryOp(op, D, d) : op \in {"+", "-"}, D \in DateExpressions, d \in DurationOperands}

\* -0.5, -0.25, 1e-7, 1.5e-7, 0.000001, 0.5, -2.5, 100.25, -5, -0
Numbers ==
  {Fraction(TRUE, 0, "5"), Fraction(TRUE, 0, "25"), Fraction(FALSE, 0, "0000001"),
   Fraction(FALSE, 0, "00000015"), Fraction(FALSE, 0, "000001"), Fraction(FALSE, 0, "5"),
   Fraction(TRUE, 2, "5"), Fraction(FALSE, 100, "25"), Num(-5), Fraction(TRUE, 0, ""),
   Fraction(TRUE, 0, "0000001")}

OtherFields ==
  {Variable("status"), Variable("pages-read"), Variable("file.cday"), FileProp("name"),
   FileProp("mday"), Index(FileProp("mtime"), StringLit("Year")),
   Index(Variable("items"), NumberLit(Num(0))),
   StringLit("done"), NumberLit(Num(5)), BoolLit(TRUE), NullLit,
   BinaryOp("/", FileProp("size"), NumberLit(Num(1024))),
   BinaryOp("+", Variable("pages-read"), StringLit(" pages")),
   BinaryOp("-", Call("date", <<Variable("today")>>), FileProp("ctime")),
   BinaryOp("-", DateLit("2024-01-01"), Call("now", <<>>)),
   BinaryOp("-", Call("date", <<Variable("today")>>), DateLit("2024-01-01")),
   BinaryOp(">", FileProp("ctime"),
            BinaryOp("-", Call("date", <<Variable("today")>>),
                     Call("dur", <<DurationLit(DurationOf(7, "days"))>>))),
   Call("date", <<BinaryOp("-", NumberLit(Num(2024)),
                           BinaryOp("-", NumberLit(Num(1)), NumberLit(Num(5))))>>),
   Call("link", <<FileProp("path"), StringLit("open")>>),
   Call("notEmpty", <<Variable("due")>>), Call("avg", <<Variable("scores")>>),
   Call("count", <<FileProp("name")>>),
   List(<<StringLit("a"), NumberLit(Num(1)), Negated(Variable("x"))>>),
   Function(StringLit("round"), <<Variable("x")>>),
   Variable("constructor"), BinaryOp("=", Variable("toString"), NumberLit(Num(1))),
   Call("contains", <<Variable("tags"), Variable("valueOf")>>),
   Call("constructor", <<Variable("x")>>), Call("Constructor", <<Variable("x")>>),
   Call("__proto__", <<Variable("x")>>), Call("toString", <<Variable("x")>>),
   OtherLit("1,2"), OtherLit("[[Note]]"), OtherLit("undefined"),
   BinaryOp("+", OtherLit("[[Note]]"), StringLit(" pages")),
   BinaryOp("constructor", Variable("a"), Variable("b")),
   BinaryOp("__proto__", Variable("a"), Variable("b")),
   BinaryOp("toString", Variable("a"), Variable("b")),
   BinaryOp("^", Variable("a"), Variable("b"))}
    \cup {NumberLit(n) : n \in Numbers}

IndexBases ==
  {Variable("due"), Variable("file"), FileProp("mtime"), Call("date", <<Variable("today")>>),
   BadTagCall}

IndexKeys ==
  {"year", "Month", "DAY", "hour", "minute", "second", "millisecond", "years", "ext",
   "cday", "name"}

\* string-keyed Index fields: date parts and other properties
IndexFields == {Index(b, StringLit(k)) : b \in IndexBases, k \in IndexKeys}

\* calls to the filter functions, as Dataview queries spell them
FilterCalls ==
  {Call(n, <<Variable("tags"), StringLit("a")>>) :
     n \in {"contains", "containsAny", "containsAll", "startswith", "endswith", "empty",
            "notEmpty", "hasTag", "hasLink", "inFolder", "Contains", "length"}}

\* a filter function call combined with a plain variable
FilterLogicals ==
  Logical(FilterCalls, {Variable("done")}) \cup Logical({Variable("done")}, FilterCalls)

KeywordSpellings ==
  {"today", "Today", "TODAY", "tomorrow", "Tomorrow", "TOMORROW", "yesterday",
   "Yesterday", "yESTERDAY", "todays", "now"}

\* date(k), k a variable or a string literal
DateKeywordCalls ==
  {Call(fn, <<a>>) : fn \in {"date", "Date"},
                     a \in {Variable(k) : k \in KeywordSpellings}
                            \cup {StringLit(k) : k \in KeywordSpellings}}

\* the deepest nesting among the inputs
MaxNest == 12

RECURSIVE NegatedTimes(_, _)
NegatedTimes(n, f) == IF n = 0 THEN f ELSE Negated(NegatedTimes(n - 1, f))

RECURSIVE ListTimes(_, _)
ListTimes(n, f) == IF n = 0 THEN f ELSE List(<<ListTimes(n - 1, f)>>)

\* !!...!(a = 1) and [[...[x]...]], nested 1 to MaxNest times
NestedFields ==
  {NegatedTimes(n, CondA) : n \in 1..MaxNest}
    \cup {ListTimes(n, Variable("x")) : n \in 1..MaxNest}

\* Y - M - D as the subtraction (Y - M) - D
LeftNested(y, m, d) ==
  BinaryOp("-", BinaryOp("-", NumberLit(Num(y)), NumberLit(Num(m))), NumberLit(Num(d)))

\* Y - M - D as the subtraction Y - (M - D)
RightNested(y, m, d) ==
  BinaryOp("-", NumberLit(Num(y)), BinaryOp("-", NumberLit(Num(m)), NumberLit(Num(d))))

Years == {1899, 1900, 2024, 2100}

Months == {1, 12, 13}

Days == {1, 5, 31}

\* date(Y - M - D) in both nestings
DateLikeCalls ==
  {Call("date", <<LeftNested(y, m, d)>>) : y \in Years, m \in Months, d \in Days}
    \cup {Call("date", <<RightNested(y, m, d)>>) : y \in Years, m \in Months, d \in Days}

Fields ==
  NestedFields \cup DateLikeCalls \cup
  Level1 \cup Level2 \cup DateArithmetics \cup OtherFields
    \cup DurationOperands \cup DurationTexts \cup IndexFields \cup FilterLogicals
    \cup DateKeywordCalls

BaseSources == {Folder("tasks"), Folder(""), Tag("#project"), Link("Index"), EmptySource}

SourceOps(S, T) == {BinaryOpSource(op, l, r) : op \in {"&", "|"}, l \in S, r \in T}

Sources1 ==
  BaseSources \cup {NegatedSource(s) : s \in BaseSources} \cup SourceOps(BaseSources, BaseSources)

Sources ==
  Sources1 \cup {NegatedSource(s) : s \in Sources1}
    \cup SourceOps(BaseSources, Sources1) \cup SourceOps(Sources1, BaseSources)

RECURSIVE NegatedSourceTimes(_, _)
NegatedSourceTimes(n, src) ==
  IF n = 0 THEN src ELSE NegatedSource(NegatedSourceTimes(n - 1, src))

NestedSources == {NegatedSourceTimes(n, Tag("#project")) : n \in 1..MaxNest}

BareColumns ==
  {NamedField("status", Variable("status")), NamedField("priority", Variable("priority")),
   NamedField("pages-read", Variable("pages-read")),
   NamedField("pages_read", Variable("pages_read"))}

Columns ==
  BareColumns \cup
  {NamedField("file.name", FileProp("name")),
   NamedField("Size KB", BinaryOp("/", FileProp("size"), NumberLit(Num(1024)))),
   NamedField("size kb", BinaryOp("*", FileProp("size"), NumberLit(Num(8)))),
   NamedField("Week Ago", BinaryOp("-", Call("date", <<Variable("today")>>),
                                   Call("dur", <<DurationLit(DurationOf(7, "days"))>>)))}

\* one column of every Field shape
ShapeColumns ==
  {NamedField("status", Variable("status")),
   NamedField("Name", FileProp("name")),
   NamedField("Year", Index(FileProp("mtime"), StringLit("year"))),
   NamedField("First", Index(Variable("items"), NumberLit(Num(0)))),
   NamedField("This Year", Index(Call("date", <<Variable("today")>>), StringLit("year"))),
   NamedField("Head", Index(List(<<Variable("a"), Variable("b")>>), NumberLit(Num(0)))),
   NamedField("Five", NumberLit(Num(5))),
   NamedField("Label", StringLit("done")),
   NamedField("Open", Negated(Variable("done"))),
   NamedField("Pair", List(<<Variable("a"), Variable("b")>>)),
   NamedField("Late", BinaryOp(">", Variable("due"), Call("date", <<Variable("today")>>))),
   NamedField("Progress", BinaryOp("+", Variable("pages-read"), StringLit(" pages"))),
   NamedField("Mean", Call("avg", <<Variable("scores")>>)),
   NamedField("", Call("sum", <<Variable("scores")>>)),
   NamedField("Tab\tName", BinaryOp("+", Variable("a"), NumberLit(Num(1)))),
   NamedField("Line\nBreak", Call("sum", <<Variable("x")>>)),
   NamedField("a\t b", NumberLit(Num(2))),
   NamedField("a" \o VerticalTab \o "b", NumberLit(Num(3))),
   NamedField("__proto__", BinaryOp("+", Variable("a"), NumberLit(Num(1)))),
   NamedField("__proto__", Negated(Variable("done"))),
   NamedField("hidden", Variable("--proto--")),
   NamedField("ctor", Variable("constructor")),
   NamedField("proto", Variable("__proto__")),
   NamedField("Part", Index(Variable("constructor"), StringLit("name")))}

Plus(name, n) == BinaryOp("+", Variable(name), NumberLit(Num(n)))

\* headers whose keys are integer-like or __proto__
KeyHeaders ==
  {TableHeader(fields, showId) :
     fields \in {<<NamedField("b", Plus("a", 1)), NamedField("2024", Plus("c", 1))>>,
                 <<NamedField("b", Plus("a", 1)), NamedField("10", NumberLit(Num(1))),
                   NamedField("9", NumberLit(Num(2)))>>,
                 <<NamedField("7", Variable("7")), NamedField("a", Variable("a")),
                   NamedField("3", Variable("3"))>>,
                 <<NamedField("01", Plus("a", 1)), NamedField("1", Plus("a", 2)),
                   NamedField("0", Plus("a", 3))>>,
                 <<NamedField("status", Variable("status")),
                   NamedField("hidden", Variable("--proto--")),
                   NamedField("ctor", Variable("constructor"))>>,
                 <<NamedField("b", Plus("a", 1)), NamedField("__proto__", Plus("c", 1))>>,
                 <<NamedField("status", Variable("status")),
                   NamedField("proto", Variable("__proto__"))>>,
                 <<NamedField("status", Variable("status")),
                   NamedField("Both", BinaryOp("&", Variable("__proto__"),
                                               Variable("constructor")))>>},
     showId \in BOOLEAN}

\* the most calls made on one transformer instance
MaxCalls == 3

SeqsUpTo(S, n) == UNION {[1..k -> S] : k \in 0..n}

Headers ==
  {TableHeader(fields, showId) : fields \in SeqsUpTo(Columns, MaxCols), showId \in BOOLEAN}
    \cup {ListHeader, TaskHeader, CalendarHeader}

OperationPool ==
  {WhereStep(CondA), WhereStep(StatusNotDone), WhereStep(BadTagCall),
   SortByStep(<<SortBy(FileProp("name"), "ascending")>>),
   SortByStep(<<SortBy(Variable("priority"), "descending"),
                SortBy(FileProp("name"), "ascending")>>),
   LimitStep(NumberLit(Num(5))), LimitStep(StringLit("10")), LimitStep(Variable("n")),
   LimitStep(NumberLit(Fraction(FALSE, 2, "5"))),
   LimitStep(Variable("0x1f")), LimitStep(Variable("0X1F")), LimitStep(Variable("\t42")),
   LimitStep(Variable("0x")), LimitStep(StringLit(VerticalTab \o "42")),
   GroupStep(NamedField("ctor", Variable("constructor"))),
   SortByStep(<<SortBy(Variable("toString"), "ascending")>>),
   WhereStep(Variable("valueOf")), WhereStep(Variable("__proto__")),
   LimitStep(BinaryOp("+", NumberLit(Num(3)), NumberLit(Num(4)))),
   LimitStep(BadTagCall),
   GroupStep(NamedField("file.folder", FileProp("folder"))),
   GroupStep(NamedField("status", Variable("status"))),
   SortByStep(<<SortBy(Negated(Variable("done")), "ascending")>>),
   GroupStep(NamedField("open", BinaryOp("&", CondA, CondB))),
   FlattenStep(NamedField("tags", Variable("tags")))}

\* TABLE file.name, status FROM "tasks" WHERE status != "done" SORT file.name ASC LIMIT 5
ScenarioQuery ==
  Query(TableHeader(<<NamedField("file.name", FileProp("name")),
                      NamedField("status", Variable("status"))>>, TRUE),
        Folder("tasks"),
        <<WhereStep(StatusNotDone), SortByStep(<<SortBy(FileProp("name"), "ascending")>>),
          LimitStep(NumberLit(Num(5)))>>)

StatusHeader == TableHeader(<<NamedField("status", Variable("status"))>>, TRUE)

Queries ==
  {Query(h, Folder("tasks"), <<>>) : h \in Headers}
    \cup {Query(h, s, ops) : h \in {ListHeader, TaskHeader, CalendarHeader},
                             s \in BaseSources, ops \in SeqsUpTo(OperationPool, 1)}
    \cup {Query(StatusHeader, s, <<WhereStep(w)>>) :
             s \in Sources1, w \in Operands \cup Groups \cup {Negated(CondA)}}
    \cup {Query(StatusHeader, s, <<>>) : s \in Sources}
    \cup {Query(StatusHeader, EmptySource, <<WhereStep(w)>>) : w \in Level2}
    \cup {Query(StatusHeader, Tag("#project"), ops) : ops \in SeqsUpTo(OperationPool, MaxOps)}
    \cup {Query(TableHeader(<<c>>, showId), EmptySource, <<>>) :
             c \in ShapeColumns, showId \in BOOLEAN}
    \cup {Query(h, EmptySource, <<>>) : h \in KeyHeaders}
    \cup {ScenarioQuery}

TwoFormulas ==
  TableHeader(<<NamedField("Size KB", BinaryOp("/", FileProp("size"), NumberLit(Num(1024)))),
                NamedField("Mean", Call("avg", <<Variable("scores")>>))>>, TRUE)

\* queries of a later call on the same instance: with formula columns,
\* without, failing in the header and failing in a clause
RepeatQueries ==
  {ScenarioQuery, Query(ListHeader, Folder("tasks"), <<>>),
   Query(TwoFormulas, Tag("#project"), <<WhereStep(CondA)>>),
   Query(TwoFormulas, EmptySource, <<LimitStep(NumberLit(Num(5)))>>),
   Query(StatusHeader, Tag("#project"), <<WhereStep(BadTagCall)>>)}

\* old-syntax date calls, with the new syntax the updater's help gives for them
OldDateCalls ==
  {[old |-> "dateModify(" \o d \o ", \"" \o dur \o "\")",
    new |-> d \o " + \"" \o dur \o "\""] :
     d \in {"due", "file.mtime", "now()"}, dur \in {"1 day", "-1 week"}}
    \cup {[old |-> "dateDiff(" \o a \o ", " \o b \o ")", new |-> a \o " - " \o b] :
            a \in {"now()", "due"}, b \in {"created", "file.ctime"}}

\* the text around a date call, before and after the update
Contexts ==
  {[before |-> "", after |-> "", newBefore |-> "", newAfter |-> ""],
   [before |-> "", after |-> " > now()", newBefore |-> "", newAfter |-> " > now()"],
   [before |-> "done and ", after |-> "", newBefore |-> "done && ", newAfter |-> ""],
   [before |-> "len(tags) > 0 or ", after |-> " < due",
    newBefore |-> "length(tags) > 0 || ", newAfter |-> " < due"],
   [before |-> "file.extension == \"md\" and ", after |-> "",
    newBefore |-> "file.ext == \"md\" && ", newAfter |-> ""],
   [before |-> "concat(a, b) == \"x\" and ", after |-> "",
    newBefore |-> "a + b == \"x\" && ", newAfter |-> ""]}

\* filters in the old syntax that hold no date call
OtherExpressions ==
  {"inFolder(file.file, \"a\") and not(done)",
   "taggedWith(file.file, \"x\") or linksTo(file.file, \"y\")",
   "len(tags) > 2 and notEmpty(due)", "empty(x) or startswith(name, \"a\")",
   "file.extensions", "duration(\"1 day\")", "concat(a, \"b\", c)", "join(\", \", a, b)",
   "join(\"\", a, b)", "join(x)", "concat(concat(a, b), c)", "tags.join(\"\")",
   "concat(a, join(\"-\", b, c))", "concat(a", "x +   \"-1 day\"",
   "myDateModify(due, \"1 day\")", "dateFormat(d, \"YYYY\") or average(x)",
   "dateModify(due,\t\"1 day\") and\tdone", "concat(a,\n b)",
   "a" \o VerticalTab \o "and" \o VerticalTab \o "b", "a +" \o VerticalTab \o "\"-7 days\"",
   "dateModify(due," \o VerticalTab \o "\"1 day\")"}

Entry(k, v) == [k |-> k, v |-> v]

\* filters as yaml.load hands them to updateFilters: texts, groups under and,
\* or and not, an object with another key, arrays, and values of other types
FilterValues ==
  {Str(e) : e \in {"a and b", "len(x) > 1", "dateModify(due, \"1 day\")", ""}}
    \cup {Map(<<Entry("and", Arr(<<Str("a and b"), Str("len(x) > 1")>>))>>),
          Map(<<Entry("or", Arr(<<Str("empty(x)"),
                                  Map(<<Entry("not", Arr(<<Str("a or b")>>))>>)>>))>>),
          Map(<<Entry("not", Str("a and b"))>>),
          Map(<<Entry("and", Arr(<<Str("a and b")>>)), Entry("note", Str("c and d"))>>),
          Map(<<Entry("and", Map(<<Entry("or", Arr(<<Str("a or b")>>))>>))>>),
          Map(<<Entry("and", Arr(<<Arr(<<Str("a and b")>>), NumberValue(5), Null>>))>>),
          Map(<<Entry("note", Str("c and d")), Entry("2", Str("x and y")),
                Entry("or", Arr(<<Str("a or b")>>)), Entry("1", Str("p"))>>),
          Map(<<Entry("not", Arr(<<>>)), Entry("__proto__", Str("a and b"))>>),
          Map(<<>>),
          Arr(<<Str("a and b")>>), Arr(<<Str("a and b"), Str("c or d")>>), Arr(<<>>),
          NumberValue(5), Null, Bool(TRUE), Bool(FALSE), Undefined,
          Obj("and", <<Str("file.inFolder(\"tasks\")"), Str("len(tags) > 0"),
                       Obj("not", <<Str("a and b")>>)>>),
          Inherited("constructor"), Inherited("__proto__")}

FilterExpressions ==
  {c.before \o dc.old \o c.after : c \in Contexts, dc \in OldDateCalls}
    \cup OtherExpressions

\* property names: plain, renamed, hyphenated, padded with spaces, and names
\* that Object.prototype also has
PropertyNames ==
  {"status", "tags", "file.name", "file.cday", "file.mday", "file.ctime", " file.cday ",
   "pages-read", "a-b-c", "file-cday", "-", "", " ", "due date", "Status",
   "constructor", "toString", "valueOf", "hasOwnProperty", "__proto__", "--proto--",
   " constructor", "\tfile.cday", "file.cday\n", "\tstatus", " \t\r\n", "a\tb",
   VerticalTab \o "file.cday", "file.mday" \o VerticalTab, VerticalTab \o "x" \o VerticalTab,
   "\f" \o VerticalTab, "a" \o VerticalTab \o "b"}

ParseErrors == {"expected TABLE, LIST, TASK or CALENDAR", "unbalanced parentheses"}

\* what parseQuery can hand to parseDataviewTable
ParseResults ==
  {Success(q) : q \in {x \in Queries : \/ x.header.type # "table"
                                        \/ Len(x.header.fields) # 1
                                        \/ x.source = Tag("#project")}}
    \cup {Failure(e) : e \in ParseErrors}

MaxWrap == 7

RECURSIVE Wrapped(_, _)
\* text inside n pairs of parentheses
Wrapped(text, n) == IF n = 0 THEN text ELSE "(" \o Wrapped(text, n - 1) \o ")"

RECURSIVE Chain(_, _)
\* n conditions joined to the right, each rest in parentheses
Chain(word, n) ==
  IF n = 0 THEN "z" ELSE "a" \o word \o "(" \o Chain(word, n - 1) \o ")"

ChainLengths == {1, 3, 4}

\* WHERE clause bodies
WhereTexts ==
  {"a = 1", "a = 1 and b = 2", "a = 1 or b = 2", "a = 1 AND b = 2 or c = 3",
   "(a = 1) and (b = 2)", "contains(tags, \"x\") and b = 2",
   "x = \"p and q\" or y = 2", "a  = 1   and (b = 2 or  c)",
   "x = (a and b)", "a) and (b", "()", "", "not (a = 1 or b = 2)",
   "x = 'it\\'s and so' and y = 2", "a = 1\tand\nb = 2", "\t(a = 1)\n",
   "a" \o VerticalTab \o "=" \o VerticalTab \o "1", VerticalTab \o " x",
   "a = 1" \o VerticalTab \o "and" \o VerticalTab \o "b = 2"}
    \cup {Wrapped("a=1", n) : n \in 1..MaxWrap}
    \cup {Wrapped("a or  b", n) : n \in {5, 6}}
    \cup {"f(x) and " \o Wrapped("a or  b", n) : n \in {4, 5}}
    \cup {Chain(word, n) : word \in {" and ", " OR "}, n \in ChainLengths}
    \cup {Wrapped(Chain(" and ", n), 1) : n \in ChainLengths}

MaxValue == 3

\* the results the methods of the Result type are called on
Results == {Success(v) : v \in 0..MaxValue} \cup {Failure(e) : e \in ParseErrors}

\* the callbacks handed to each method
Callbacks(method) ==
  CASE method = "map" -> {"increment", "square"}
    [] method = "flatMap" -> {"halve", "reject"}
    [] method = "mapErr" -> {"describe", "length"}
    [] method = "cast" -> {""}
    [] method = "flatMap2" -> {"divide", "add"}

(***************************************************************************)
(* The state machine: one call of an operation on a chosen input.          *)
(***************************************************************************)
NoQuery == Query(TableHeader(<<>>, FALSE), EmptySource, <<>>)

None == [t |-> "none"]

Idle ==
  /\ pc = "ready"
  /\ formulaCounter = 0
  /\ result = None
  /\ lowered = None
  /\ output = None
  /\ updatedFilter = ""
  /\ leaves = <<>>
  /\ reply = None

Init ==
  /\ Idle
  /\ call \in {"transform", "parseDataviewTable", "transformFieldExpression",
               "transformSource", "mapDataviewPropertyToBaseProperty",
               "updateFilterExpression", "updateFilters"}
  /\ placeFiltersInView \in (IF call \in {"transform", "parseDataviewTable"}
                               THEN BOOLEAN ELSE {TRUE})
  /\ query \in (IF call = "transform" THEN Queries ELSE {NoQuery})
  /\ parseResult \in (IF call = "parseDataviewTable" THEN ParseResults
                      ELSE {Success(NoQuery)})
  /\ field \in (IF call = "transformFieldExpression" THEN Fields ELSE {Variable("x")})
  /\ source \in (IF call = "transformSource" THEN Sources \cup NestedSources
                  ELSE {EmptySource})
  /\ property \in (IF call = "mapDataviewPropertyToBaseProperty" THEN PropertyNames ELSE {"x"})
  /\ filterText \in (IF call = "updateFilterExpression" THEN FilterExpressions ELSE {""})
  /\ history = <<>>
  /\ pending = <<>>
  /\ operands \in (IF call = "updateFilters" THEN {<<f>> : f \in FilterValues} ELSE {<<>>})
  /\ callback = ""

\* new DataviewToBasesTransformer().transform(query, placeFiltersInView)
Transform ==
  /\ pc = "ready" /\ call = "transform"
  /\ result' = transform(query, placeFiltersInView)
  /\ formulaCounter' = formulaCounterAfter(query, formulaCounter)
  /\ pc' = "done"
  /\ UNCHANGED <<call, query, placeFiltersInView, parseResult, field, source, property, filterText,
                 lowered, output, history, updatedFilter, pending, leaves,
                 operands, callback, reply>>

\* parseDataviewTable(text, placeFiltersInView), parseQuery(text) giving parseResult
ParseDataviewTable ==
  /\ pc = "ready" /\ call = "parseDataviewTable"
  /\ output' = parseDataviewTable(parseResult, placeFiltersInView)
  /\ pc' = "done"
  /\ UNCHANGED <<call, query, placeFiltersInView, parseResult, field, source, property, filterText,
                 result, lowered, formulaCounter, history, updatedFilter, pending, leaves,
                 operands, callback, reply>>

\* transformFieldExpression(field)
LowerField ==
  /\ pc = "ready" /\ call = "transformFieldExpression"
  /\ lowered' = transformFieldExpression(field)
  /\ pc' = "done"
  /\ UNCHANGED <<call, query, placeFiltersInView, parseResult, field, source, property, filterText,
                 result, output, formulaCounter, history, updatedFilter, pending, leaves,
                 operands, callback, reply>>

\* transformSource(source)
LowerSource ==
  /\ pc = "ready" /\ call = "transformSource"
  /\ lowered' = transformSource(source)
  /\ pc' = "done"
  /\ UNCHANGED <<call, query, placeFiltersInView, parseResult, field, source, property, filterText,
                 result, output, formulaCounter, history, updatedFilter, pending, leaves,
                 operands, callback, reply>>

\* mapDataviewPropertyToBaseProperty(property)
MapProperty ==
  /\ pc = "ready" /\ call = "mapDataviewPropertyToBaseProperty"
  /\ lowered' = mapDataviewPropertyToBaseProperty(property)
  /\ pc' = "done"
  /\ UNCHANGED <<call, query, placeFiltersInView, parseResult, field, source, property, filterText,
                 result, output, formulaCounter, history, updatedFilter, pending, leaves,
                 operands, callback, reply>>

\* new BasesUpdater().updateFilterExpression(filterText)
UpdateFilterExpression ==
  /\ pc = "ready" /\ call = "updateFilterExpression"
  /\ updatedFilter' = updateFilterExpression(filterText)
  /\ pc' = "done"
  /\ UNCHANGED <<call, query, placeFiltersInView, parseResult, field, source, property,
                 filterText, result, lowered, output, formulaCounter, history, pending, leaves,
                 operands, callback, reply>>

\* new BasesUpdater().updateFilters(filters), filters being the one operand
UpdateFilters ==
  /\ pc = "ready" /\ call = "updateFilters"
  /\ lowered' = updateFilters(operands[1])
  /\ pc' = "done"
  /\ UNCHANGED <<call, query, placeFiltersInView, parseResult, field, source, property,
                 filterText, result, output, formulaCounter, history, updatedFilter, pending,
                 leaves, operands, callback, reply>>

\* the caller begins another transform on the same instance; history keeps
\* how the calls made so far ended
NextCall ==
  /\ pc = "done" /\ call = "transform"
  /\ Len(history) + 1 < MaxCalls
  /\ history' = Append(history, result.t)
  /\ query' \in RepeatQueries
  /\ placeFiltersInView' \in BOOLEAN
  /\ result' = None
  /\ pc' = "ready"
  /\ UNCHANGED <<call, parseResult, field, source, property, filterText, lowered, output,
                 formulaCounter, updatedFilter, pending, leaves,
                 operands, callback, reply>>

Next ==
  \/ Transform \/ ParseDataviewTable \/ LowerField \/ LowerSource \/ MapProperty
  \/ NextCall \/ UpdateFilterExpression \/ UpdateFilters

Spec == Init /\ [][Next]_vars

\* parseDataviewFilters(filterText): the call stack holds the activations
\* still to run, innermost first
LegacyInit ==
  /\ Idle
  /\ call = "parseDataviewFilters"
  /\ placeFiltersInView = TRUE
  /\ query = NoQuery
  /\ parseResult = Success(NoQuery)
  /\ field = Variable("x")
  /\ source = EmptySource
  /\ property = "x"
  /\ filterText \in WhereTexts
  /\ history = <<>>
  /\ pending = <<Frame("parseDataviewFilters", filterText, 0)>>
  /\ operands = <<>>
  /\ callback = ""

Entered(frame, outcome) ==
  /\ pending' = outcome.calls \o Tail(pending)
  /\ leaves' = IF outcome.kind = "condition"
                 THEN Append(leaves, [text |-> outcome.text, depth |-> frame.depth,
                                      fn |-> frame.fn])
               ELSE leaves

\* the innermost activation runs up to the calls it makes
Enter ==
  /\ pc = "ready" /\ call = "parseDataviewFilters" /\ pending # <<>>
  /\ Entered(Head(pending), Activation(Head(pending)))
  /\ UNCHANGED <<pc, call, query, placeFiltersInView, parseResult, field, source, property,
                 filterText, result, lowered, output, formulaCounter, history, updatedFilter,
                 operands, callback, reply>>

\* every activation has returned: the call returns its object
Return ==
  /\ pc = "ready" /\ call = "parseDataviewFilters" /\ pending = <<>>
  /\ lowered' = Returns(Frame("parseDataviewFilters", filterText, 0))
  /\ pc' = "done"
  /\ UNCHANGED <<call, query, placeFiltersInView, parseResult, field, source, property,
                 filterText, result, output, formulaCounter, history, updatedFilter,
                 pending, leaves,
                 operands, callback, reply>>

LegacyNext == Enter \/ Return

LegacySpec == LegacyInit /\ [][LegacyNext]_vars

\* a method of the Result type called on chosen results with a chosen callback
ResultInit ==
  /\ Idle
  /\ call \in {"map", "flatMap", "mapErr", "cast", "flatMap2"}
  /\ placeFiltersInView = TRUE
  /\ query = NoQuery
  /\ parseResult = Success(NoQuery)
  /\ field = Variable("x")
  /\ source = EmptySource
  /\ property = "x"
  /\ filterText = ""
  /\ history = <<>>
  /\ pending = <<>>
  /\ operands \in (IF call = "flatMap2" THEN {<<a, b>> : a \in Results, b \in Results}
                   ELSE {<<a>> : a \in Results})
  /\ callback \in Callbacks(call)

ResultMap ==
  /\ pc = "ready" /\ call = "map"
  /\ reply' = map(operands[1], callback)
  /\ pc' = "done"
  /\ UNCHANGED <<call, query, placeFiltersInView, parseResult, field, source, property,
                 filterText, result, lowered, output, formulaCounter, history, updatedFilter,
                 pending, leaves, operands, callback>>

ResultFlatMap ==
  /\ pc = "ready" /\ call = "flatMap"
  /\ reply' = flatMap(operands[1], callback)
  /\ pc' = "done"
  /\ UNCHANGED <<call, query, placeFiltersInView, parseResult, field, source, property,
                 filterText, result, lowered, output, formulaCounter, history, updatedFilter,
                 pending, leaves, operands, callback>>

ResultMapErr ==
  /\ pc = "ready" /\ call = "mapErr"
  /\ reply' = mapErr(operands[1], callback)
  /\ pc' = "done"
  /\ UNCHANGED <<call, query, placeFiltersInView, parseResult, field, source, property,
                 filterText, result, lowered, output, formulaCounter, history, updatedFilter,
                 pending, leaves, operands, callback>>

ResultCast ==
  /\ pc = "ready" /\ call = "cast"
  /\ reply' = cast(operands[1])
  /\ pc' = "done"
  /\ UNCHANGED <<call, query, placeFiltersInView, parseResult, field, source, property,
                 filterText, result, lowered, output, formulaCounter, history, updatedFilter,
                 pending, leaves, operands, callback>>

ResultFlatMap2 ==
  /\ pc = "ready" /\ call = "flatMap2"
  /\ reply' = flatMap2(operands[1], operands[2], callback)
  /\ pc' = "done"
  /\ UNCHANGED <<call, query, placeFiltersInView, parseResult, field, source, property,
                 filterText, result, lowered, output, formulaCounter, history, updatedFilter,
                 pending, leaves, operands, callback>>

ResultNext == ResultMap \/ ResultFlatMap \/ ResultMapErr \/ ResultCast \/ ResultFlatMap2

ResultSpec == ResultInit /\ [][ResultNext]_vars

(***************************************************************************)
(* Properties.                                                             *)
(***************************************************************************)
Transformed == pc = "done" /\ call = "transform"

Converted == pc = "done" /\ call = "parseDataviewTable"

FieldLowered == pc = "done" /\ call = "transformFieldExpression"

SourceLowered == pc = "done" /\ call = "transformSource"

PropertyMapped == pc = "done" /\ call = "mapDataviewPropertyToBaseProperty"

\* C1: for a query whose header is list, task or calendar, transform raises an
\* error whose message names the header keyword (LIST, TASK, CALENDAR) and
\* returns no configuration.
C1_UnsupportedHeaderRaises ==
  (Transformed /\ query.header.type \in {"list", "task", "calendar"}) =>
    /\ IsThrow(result)
    /\ includes(result.msg,
                CASE query.header.type = "list" -> "LIST"
                  [] query.header.type = "task" -> "TASK"
                  [] query.header.type = "calendar" -> "CALENDAR")

C1_Witness ==
  /\ Transformed
  /\ query.header.type = "calendar"
  /\ query.source = Folder("tasks")
  /\ query.operations # <<>>
  /\ IsThrow(result)
  /\ startsWith(result.msg, "CALENDAR queries are not supported")

\* the comment line parseDataviewTable returns for a failure
ErrorLine(msg) == Str("# Error parsing Dataview query: " \o msg)

\* C2: parseDataviewTable never throws: when parsing and transforming both
\* succeed it returns the YAML of the complete configuration transform
\* built, and otherwise one comment line "# Error parsing Dataview query: "
\* followed by the failure message; it never returns a part of a
\* configuration.
C2_YamlWhenTransformed ==
  Converted =>
    /\ output.t = "returned"
    /\ IF ~parseResult.successful
         THEN output.value = ErrorLine("Failed to parse Dataview query: " \o parseResult.error)
       ELSE IF IsThrow(transform(parseResult.value, placeFiltersInView))
         THEN output.value = ErrorLine(transform(parseResult.value, placeFiltersInView).msg)
       ELSE output.value = Yaml(transform(parseResult.value, placeFiltersInView).value)

\* the configuration holds a function, which yaml.dump refuses
Undumpable(t) == \E v \in LoweredValues(t.value) : HoldsFunction(v)

\* what parseDataviewTable returns when parseQuery succeeded and transform gave t
ExpectedOutput(t) ==
  IF IsThrow(t) THEN ErrorLine(t.msg)
  ELSE IF Undumpable(t)
    THEN ErrorLine("unacceptable kind of an object to dump [object Function]")
  ELSE Yaml(t.value)

\* the part of C2 that holds: no exception leaves parseDataviewTable, what it
\* returns is the comment line or the YAML of the whole configuration, and
\* the YAML is returned whenever parsing and transforming succeed and the
\* configuration holds no function
C2_CompleteOrFailure ==
  Converted =>
    /\ output.t = "returned"
    /\ IF ~parseResult.successful
         THEN output.value = ErrorLine("Failed to parse Dataview query: " \o parseResult.error)
       ELSE output.value = ExpectedOutput(transform(parseResult.value, placeFiltersInView))
    /\ output.value.t \in {"str", "yaml"}
    /\ output.value.t = "yaml" =>
         /\ parseResult.successful
         /\ ~IsThrow(transform(parseResult.value, placeFiltersInView))
         /\ output.value.doc.views[1].type = "table"
         /\ Has(output.value.doc.views[1].order) = Has(output.value.doc.display)

\* a configuration transform built that yaml.dump refuses
C2_DumpRefused ==
  /\ Converted
  /\ parseResult.successful
  /\ parseResult.value.header.type = "table"
  /\ ~IsThrow(transform(parseResult.value, placeFiltersInView))
  /\ Has(transform(parseResult.value, placeFiltersInView).value.views[1].sort)
  /\ output.value = ErrorLine("unacceptable kind of an object to dump [object Function]")

\* a transformer exception answered by the comment line
C2_ExceptionCaught ==
  /\ Converted
  /\ parseResult.successful
  /\ parseResult.value.operations # <<>>
  /\ output.value = ErrorLine("args[1].replace is not a function")

\* the filter transform stored, in the view or at the top level
FilterSlot(res, inView) == IF inView THEN res.views[1].filters ELSE res.filters

\* C3: for TABLE file.name, status FROM "tasks" WHERE status != "done"
\* SORT file.name ASC LIMIT 5 (showId true) transform yields one view whose
\* order is exactly [file.name, status], whose sort is [{file.name, asc}],
\* whose limit is 5, whose filter is the and-group of the folder predicate
\* on "tasks" and status != "done", and a display map with exactly the keys
\* file.name and status.
C3_Scenario ==
  (Transformed /\ query = ScenarioQuery) =>
    /\ result.t = "returned"
    /\ Len(result.value.views) = 1
    /\ result.value.views[1].order = Present(<<Str("file.name"), Str("status")>>)
    /\ result.value.views[1].sort
         = Present(<<[column |-> Str("file.name"), direction |-> "asc"]>>)
    /\ result.value.views[1].limit = Present(Num(5))
    /\ FilterSlot(result.value, placeFiltersInView)
         = Present(Obj("and", <<Str("file.inFolder(\"tasks\")"),
                                Str("status != \"done\"")>>))
    /\ Has(result.value.display)
    /\ Keys(Get(result.value.display)) = {"file.name", "status"}

\* a Table query whose columns are all bare variables and that has no Where
\* operation, for which transform returned a configuration
BareTable ==
  /\ Transformed
  /\ query.header.type = "table"
  /\ \A i \in DOMAIN query.header.fields : query.header.fields[i].field.type = "variable"
  /\ \A i \in DOMAIN query.operations : query.operations[i].type # "where"
  /\ result.t = "returned"

DisplayOf(res) == IF Has(res.display) THEN Get(res.display) ELSE <<>>

OrderOf(res) == IF Has(res.views[1].order) THEN Get(res.views[1].order) ELSE <<>>

\* the column names in clause order, as the configuration spells them
ClauseOrder(header) ==
  (IF header.showId THEN <<Str("file.name")>> ELSE <<>>)
    \o [i \in DOMAIN header.fields |->
          mapDataviewPropertyToBaseProperty(header.fields[i].field.name)]

\* C4 as stated: display has as many entries as the header has fields, plus
\* one when showId is true, and order lists the columns in clause order
\* preceded by file.name iff showId.
C4_DisplayCountsFields ==
  BareTable =>
    /\ Len(DisplayOf(result.value))
         = Len(query.header.fields) + (IF query.header.showId THEN 1 ELSE 0)
    /\ OrderOf(result.value) = ClauseOrder(query.header)

\* C4: for a Table query of bare-variable columns without a Where operation,
\* display has exactly one entry for each distinct column name of the
\* configuration (a repeated column, or two columns that differ only in
\* hyphen against underscore, share one entry; the key is the text of the
\* lowered name, and a column that lowers to __proto__ gets no entry), plus
\* the entry file.name when showId is true, and order lists what every
\* column lowers to in clause order, preceded by file.name iff showId.
C4_DisplayCountsDistinctColumns ==
  BareTable =>
    /\ Keys(DisplayOf(result.value))
         = {Interp(ClauseOrder(query.header)[i]) : i \in DOMAIN ClauseOrder(query.header)}
             \ {"__proto__"}
    /\ Len(DisplayOf(result.value)) = Cardinality(Keys(DisplayOf(result.value)))
    /\ OrderOf(result.value) = ClauseOrder(query.header)

C4_Witness ==
  /\ BareTable
  /\ query.header.showId
  /\ Len(query.header.fields) = 3
  /\ query.header.fields[1].field.name = "pages-read"
  /\ query.header.fields[3].field.name = "pages_read"
  /\ Len(DisplayOf(result.value)) = 3
  /\ OrderOf(result.value)
       = <<Str("file.name"), Str("pages_read"), Str("priority"), Str("pages_read")>>

IsGroup(v, operator) == IsObj(v) /\ v.key = operator

\* no and-group directly inside an and-group, no or-group directly inside an
\* or-group, anywhere in v
RECURSIVE Flat(_)
Flat(v) ==
  IsObj(v) =>
    \A i \in DOMAIN v.list :
      /\ Flat(v.list[i])
      /\ v.key \in {"and", "or"} => ~IsGroup(v.list[i], v.key)

FlatSlot(slot) == Has(slot) => Flat(Get(slot))

\* C5: no filter tree of a configuration transform returns, no lowered Field
\* and no lowered Source has an and-group as a direct element of an
\* and-group or an or-group as a direct element of an or-group.
C5_FlatteningInvariant ==
  /\ (Transformed /\ result.t = "returned") =>
       FlatSlot(result.value.filters) /\ FlatSlot(result.value.views[1].filters)
  /\ (FieldLowered \/ SourceLowered) => Flat(lowered)

C5_Witness ==
  /\ Transformed
  /\ query.source.type = "binaryop" /\ query.source.op = "&"
  /\ Len(query.operations) = 1
  /\ query.operations[1].type = "where"
  /\ query.operations[1].clause.type = "binaryop" /\ query.operations[1].clause.op = "&"
  /\ result.t = "returned"
  /\ Has(FilterSlot(result.value, placeFiltersInView))
  /\ IsGroup(Get(FilterSlot(result.value, placeFiltersInView)), "and")
  /\ Len(Get(FilterSlot(result.value, placeFiltersInView)).list) = 4

IsLogical(f, op) == f.type = "binaryop" /\ f.op = op

\* the Field A & (B & C) where A, B and C each lower to a leaf
ThreeLeaves ==
  /\ FieldLowered
  /\ IsLogical(field, "&") /\ IsLogical(field.right, "&")
  /\ IsStr(transformFieldExpression(field.left))
  /\ IsStr(transformFieldExpression(field.right.left))
  /\ IsStr(transformFieldExpression(field.right.right))

AndOfThree(a, b, c) == Obj("and", <<a, b, c>>)

\* what A & (B & C) lowers to when neither B nor C is a filter expression
MergedRight(A, a, b, c) ==
  IF isFilterExpression(A) THEN Obj("and", <<a, Str(b.s \o " && " \o c.s)>>)
  ELSE Str(a.s \o " && " \o b.s \o " && " \o c.s)

\* C6 as stated: for A, B, C that each lower to a leaf, A & (B & C) lowers to
\* the and-group [lower(A), lower(B), lower(C)].
C6_ThreeLeavesOneGroup ==
  ThreeLeaves =>
    lowered = AndOfThree(transformFieldExpression(field.left),
                         transformFieldExpression(field.right.left),
                         transformFieldExpression(field.right.right))

\* C6: for A, B, C that each lower to a leaf, A & (B & C) lowers to the
\* and-group [lower(A), lower(B), lower(C)] when B or C is a filter
\* expression (a comparison or a call of a filter function); when neither
\* is, B & C is merged into the text lower(B) && lower(C), and the result
\* is the and-group of lower(A) and that text when A is a filter expression
\* and the text lower(A) && lower(B) && lower(C) otherwise.
C6_ThreeLeavesWhenFilter ==
  ThreeLeaves =>
    IF isFilterExpression(field.right.left) \/ isFilterExpression(field.right.right)
      THEN lowered = AndOfThree(transformFieldExpression(field.left),
                                transformFieldExpression(field.right.left),
                                transformFieldExpression(field.right.right))
    ELSE lowered = MergedRight(field.left, transformFieldExpression(field.left),
                               transformFieldExpression(field.right.left),
                               transformFieldExpression(field.right.right))

C6_Witness ==
  /\ ThreeLeaves
  /\ field.left = Variable("archived")
  /\ field.right.left = Variable("done")
  /\ field.right.right = CondC
  /\ lowered = Obj("and", <<Str("archived"), Str("done"), Str("c == 3")>>)

Comparison(f) == f.type = "binaryop" /\ f.op \in {"=", "!=", ">", ">=", "<", "<="}

\* (a & b) | c for comparisons a, b, c
AndThenOr ==
  /\ IsLogical(field, "|") /\ IsLogical(field.left, "&")
  /\ Comparison(field.left.left) /\ Comparison(field.left.right) /\ Comparison(field.right)

\* a & (b | c) for comparisons a, b, c
AndOfOr ==
  /\ IsLogical(field, "&") /\ IsLogical(field.right, "|")
  /\ Comparison(field.left) /\ Comparison(field.right.left) /\ Comparison(field.right.right)

\* C7: for comparisons a, b, c, (a & b) | c lowers to the or-group of the
\* and-group [lower(a), lower(b)] and lower(c), and a & (b | c) lowers to the
\* and-group of lower(a) and the or-group [lower(b), lower(c)].
C7_MixedOperatorsKept ==
  FieldLowered =>
    /\ AndThenOr =>
         lowered = Obj("or", <<Obj("and", <<transformFieldExpression(field.left.left),
                                            transformFieldExpression(field.left.right)>>),
                               transformFieldExpression(field.right)>>)
    /\ AndOfOr =>
         lowered = Obj("and", <<transformFieldExpression(field.left),
                                Obj("or", <<transformFieldExpression(field.right.left),
                                            transformFieldExpression(field.right.right)>>)>>)

C7_Witness ==
  /\ FieldLowered
  /\ field = BinaryOp("|", BinaryOp("&", CondA, CondB), CondC)
  /\ lowered = Obj("or", <<Obj("and", <<Str("a == 1"), Str("b == 2")>>), Str("c == 3")>>)

\* the not-group around one lowered child
NotGroupOf(child) == Obj("not", <<child>>)

\* C8: for every Field f whose lowering returns, Negated(f) lowers to a
\* not-group whose list has exactly one element, lower(f), be it a leaf, an
\* and/or group or itself a not-group.
C8_NegatedIsOneElementNot ==
  (FieldLowered /\ field.type = "negated"
     /\ ~IsThrow(transformFieldExpression(field.child))) =>
    /\ lowered = NotGroupOf(transformFieldExpression(field.child))
    /\ Len(lowered.list) = 1

C8_Witness ==
  /\ FieldLowered
  /\ field.type = "negated" /\ field.child.type = "negated"
  /\ field.child.child = CondA
  /\ lowered = Obj("not", <<Obj("not", <<Str("a == 1")>>)>>)

\* C9 as stated: for every Source s, Negated(s) lowers to the not-group whose
\* one element is lower(s).
C9_NegatedSourceAlwaysNot ==
  (SourceLowered /\ source.type = "negate") =>
    lowered = NotGroupOf(transformSource(source.child))

\* what Negated(s) lowers to, inner being lower(s)
NotUnlessEmpty(inner) == IF IsNull(inner) THEN Null ELSE NotGroupOf(inner)

\* C9: for every Source s that lowers to a predicate or a group, Negated(s)
\* lowers to the not-group whose one element is lower(s); for a Source that
\* contributes no predicate (Empty, a Folder with the empty path, and their
\* negations and combinations) Negated(s) contributes no predicate either.
C9_NegatedSourceNotUnlessEmpty ==
  (SourceLowered /\ source.type = "negate") =>
    lowered = NotUnlessEmpty(transformSource(source.child))

C9_Witness ==
  /\ SourceLowered
  /\ source.type = "negate" /\ source.child.type = "binaryop"
  /\ IsGroup(lowered, "not")
  /\ Len(lowered.list) = 1
  /\ IsGroup(lowered.list[1], "or")

\* D op d for a date expression D and a duration operand d
DateAndDuration ==
  /\ FieldLowered
  /\ field.type = "binaryop" /\ field.op \in {"+", "-"}
  /\ IsCallTo(field.left, {"date", "now"}) \/ (field.left.type = "literal" /\ field.left.lit = "date")
  /\ IsCallTo(field.right, {"dur"}) \/ IsDurationLit(field.right)

\* the duration text with its sign flipped
FlipSign(text) == IF startsWith(text, "-") THEN Tail(text) ELSE "-" \o text

\* the duration text inside the quotes of a lowered duration
DurationText(d) ==
  IF startsWith(d.s, "\"") /\ endsWith(d.s, "\"") THEN SubSeq(d.s, 2, Len(d.s) - 1)
  ELSE d.s

Shifted(op, D, text) ==
  Str(D.s \o " + \"" \o (IF op = "-" THEN FlipSign(text) ELSE text) \o "\"")

\* C10: for every date expression D and every duration operand d, D + d
\* lowers to lower(D) + "<d>" and D - d lowers to lower(D) + "<d with its
\* sign flipped>": the operator is always + and a subtraction always flips
\* the sign of the duration text.
C10_SubtractionFlipsSign ==
  DateAndDuration =>
    lowered = Shifted(field.op, transformFieldExpression(field.left),
                      DurationText(transformFieldExpression(field.right)))

\* the part of C10 that holds: durations whose text carries no minus sign
C10_NonNegative ==
  (DateAndDuration /\ IsStr(transformFieldExpression(field.right))
     /\ ~startsWith(DurationText(transformFieldExpression(field.right)), "-")) =>
    lowered = Shifted(field.op, transformFieldExpression(field.left),
                      DurationText(transformFieldExpression(field.right)))

\* mapDataviewPropertyToBaseProperty applied to what it returned
MappedAgain(v) ==
  IF IsStr(v) THEN mapDataviewPropertyToBaseProperty(v.s)
  ELSE Throw("prop.trim is not a function")

\* C15: property-path renaming is idempotent: for every property name p,
\* mapDataviewPropertyToBaseProperty applied to
\* mapDataviewPropertyToBaseProperty(p) gives mapDataviewPropertyToBaseProperty(p).
C15_RenamingIdempotent == PropertyMapped => MappedAgain(lowered) = lowered

\* the part of C15 that holds: names that, trimmed and with hyphens replaced,
\* are not keys of Object.prototype
C15_IdempotentOnOwnNames ==
  (PropertyMapped /\ IsStr(lowered) /\ lowered.s \notin InheritedKeys) =>
    MappedAgain(lowered) = lowered

\* the normalized text of N units: weeks in days, the unit singular for 1
Normalized(n, unit) ==
  IF unit = "weeks" THEN "\"" \o ToString(7 * n) \o " days\""
  ELSE "\"" \o ToString(n) \o " " \o (IF n = 1 THEN Singular(unit) ELSE unit) \o "\""

\* dur(N u) with the argument a duration literal, or the text N u with the
\* unit in the singular or the plural
IsDurOf(f, n, unit) ==
  \/ f = Call("dur", <<DurationLit(DurationOf(n, unit))>>)
  \/ f = Call("dur", <<StringLit(ToString(n) \o " " \o unit)>>)
  \/ f = Call("dur", <<StringLit(ToString(n) \o " " \o Singular(unit))>>)

\* C11: for every positive integer N and every duration unit u, the call
\* dur(N u) lowers to the quoted text "M unit" where weeks are converted to
\* days (7N days) and the unit is singular exactly when the number is 1.
C11_DurNormalized ==
  FieldLowered =>
    \A n \in 1..MaxDur, unit \in DurationUnits :
      IsDurOf(field, n, unit) => lowered = Str(Normalized(n, unit))

C11_Witness ==
  /\ FieldLowered
  /\ field = Call("dur", <<DurationLit(DurationOf(2, "weeks"))>>)
  /\ lowered = Str("\"14 days\"")
  /\ lowered = transformFieldExpression(Call("dur", <<DurationLit(DurationOf(14, "days"))>>))

\* a duration literal of N units of one kind, N positive
IsLiteralOf(f, n, unit) == f = DurationLit(DurationOf(n, unit))

\* C12: a duration literal lowers to the same normalized text as the call
\* dur(...) of the same quantity: N weeks gives "7N days", and the unit is
\* singular when N = 1 and plural otherwise.
C12_LiteralAsDurCall ==
  FieldLowered =>
    \A n \in 1..MaxDur, unit \in DurationUnits :
      IsLiteralOf(field, n, unit) =>
        /\ lowered = transformFieldExpression(Call("dur", <<field>>))
        /\ lowered = Str(Normalized(n, unit))

\* the part of C12 that holds: every unit but weeks
C12_LiteralButWeeks ==
  FieldLowered =>
    \A n \in 1..MaxDur, unit \in DurationUnits \ {"weeks"} :
      IsLiteralOf(field, n, unit) => lowered = Str(Normalized(n, unit))

\* a Table query for which transform returned a configuration
TableDone == Transformed /\ query.header.type = "table" /\ result.t = "returned"

\* the positions of the header's formula columns
FormulaColumns(header) ==
  {i \in DOMAIN header.fields : isFormulaField(header.fields[i].field)}

\* the entry of the view's order for the header's i-th column
OrderEntry(res, header, i) == OrderOf(res)[i + (IF header.showId THEN 1 ELSE 0)]

FormulasOf(res) == IF Has(res.formulas) THEN Get(res.formulas) ELSE <<>>

\* C13: within one transform call two different formula columns never get
\* the same key: their formula.<key> paths differ and the formulas map has
\* one entry for each of them.
C13_FormulaKeysUnique ==
  TableDone =>
    \A i, j \in FormulaColumns(query.header) :
      query.header.fields[i] # query.header.fields[j] =>
        /\ OrderEntry(result.value, query.header, i)
             # OrderEntry(result.value, query.header, j)
        /\ Len(FormulasOf(result.value)) >= 2

\* a bare Variable, or a chain of Index accesses rooted at a Variable
RECURSIVE RootedAtVariable(_)
RootedAtVariable(f) ==
  \/ f.type = "variable"
  \/ f.type = "index" /\ RootedAtVariable(f.object)

\* the formula key of a column alias
KeyOfAlias(name) == replaceSpaceRuns(toLowerCase(name), "_")

\* the column is a formula in the configuration: its path in order and in
\* display is formula.<key> and formulas holds its expression under <key>
TreatedAsFormula(res, header, i) ==
  /\ OrderEntry(res, header, i) = Str("formula." \o KeyOfAlias(header.fields[i].name))
  /\ Interp(OrderEntry(res, header, i)) \in Keys(DisplayOf(res))
  /\ KeyOfAlias(header.fields[i].name) \in Keys(FormulasOf(res))

\* the column is a plain reference: no formula.<key> path for it and no
\* entry in formulas
TreatedAsReference(res, header, i) ==
  /\ OrderEntry(res, header, i) = transformFieldExpression(header.fields[i].field)
  /\ Interp(OrderEntry(res, header, i)) \in Keys(DisplayOf(res))
  /\ ~startsWith(Interp(OrderEntry(res, header, i)), "formula.")
  /\ KeyOfAlias(header.fields[i].name) \notin Keys(FormulasOf(res))

\* C14: a table column is treated as a formula if and only if its Field is
\* neither a bare Variable nor a chain of Index accesses rooted at a
\* Variable; a column of that kind is a plain reference.
C14_FormulaIffComputed ==
  TableDone =>
    \A i \in DOMAIN query.header.fields :
      IF RootedAtVariable(query.header.fields[i].field)
        THEN TreatedAsReference(result.value, query.header, i)
      ELSE TreatedAsFormula(result.value, query.header, i)

\* the operations that are the last of their kind, in their order
LastOfEachKind(ops) ==
  SelectSeq([i \in DOMAIN ops |-> [op |-> ops[i],
                                   last |-> \A j \in DOMAIN ops :
                                              j > i => ops[j].type # ops[i].type]],
            LAMBDA e : e.last)

OnlyOps(entries) == [i \in DOMAIN entries |-> entries[i].op]

\* the query with every operation dropped that a later one of its kind follows
LastOnly(q) == [q EXCEPT !.operations = OnlyOps(LastOfEachKind(q.operations))]

\* C16: every slot of the view reflects only the last operation of its kind
\* (filters the last Where, sort the last Sort, limit the last Limit,
\* group_by the last Group): the result is the one of the query that keeps
\* only the last operation of each kind.
C16_LastOfKindWins ==
  (Transformed /\ result.t = "returned") =>
    result = transform(LastOnly(query), placeFiltersInView)

LimitsOf(ops) == SelectSeq(ops, LAMBDA o : o.type = "limit")

NoLimits(q) == [q EXCEPT !.operations = SelectSeq(q.operations, LAMBDA o : o.type # "limit")]

LimitOf(res) == res.value.views[1].limit

\* what parseInt gives for the lowered amount, as the view's limit
ParsedLimit(parsed) ==
  IF parsed.nan THEN Absent ELSE Present(Fraction(parsed.neg, Abs(parsed.int), ""))

\* the limit the view must have for a Limit of the given amount
LimitFor(amount) ==
  IF IsNumberLit(amount)
    THEN (IF amount.number.frac = "" THEN Present(amount.number) ELSE Absent)
  ELSE IF amount.type = "literal" THEN Absent
  ELSE ParsedLimit(parseInt(Interp(transformFieldExpression(amount))))

\* a completed transform of a query with one Limit, the rest of which
\* transforms without error
OneLimit ==
  /\ Transformed
  /\ Len(LimitsOf(query.operations)) = 1
  /\ transform(NoLimits(query), placeFiltersInView).t = "returned"

\* C17: with exactly one Limit, the transform completes without error, and
\* the view's limit is the amount when it is an integer literal, the parsed
\* integer when the amount is not a literal and its lowered text parses,
\* and absent for every other amount.
C17_LimitOnlyFromIntegers ==
  OneLimit =>
    /\ result.t = "returned"
    /\ LimitOf(result) = LimitFor(LimitsOf(query.operations)[1].amount)

DatePartNames == {"year", "month", "day", "hour", "minute", "second", "millisecond"}

\* a lowered Index field with a string key whose base lowers without error
StringKeyed ==
  /\ FieldLowered
  /\ field.type = "index"
  /\ field.index.type = "literal" /\ field.index.lit = "string"
  /\ ~IsThrow(transformFieldExpression(field.object))

\* accessor(base) for a date part, the renamed dotted path otherwise
IndexExpected(key, base) ==
  IF toLowerCase(key) \in DatePartNames
    THEN Str(toLowerCase(key) \o "(" \o base \o ")")
  ELSE mapDataviewPropertyToBaseProperty(base \o "." \o key)

\* C18: an Index whose key is a date-part name in any letter case lowers to
\* the prefix form accessor(lower(base)); every other string-keyed Index
\* lowers to the dotted path passed through the rename table.
C18_DatePartPrefixForm ==
  StringKeyed =>
    lowered = IndexExpected(field.index.str, Interp(transformFieldExpression(field.object)))

\* the second half of C18 alone: string keys that are not date parts
C18_OtherKeysDotted ==
  (StringKeyed /\ toLowerCase(field.index.str) \notin DatePartNames) =>
    lowered = IndexExpected(field.index.str, Interp(transformFieldExpression(field.object)))

FilterFunctionNames ==
  {"contains", "containsany", "containsall", "startswith", "endswith", "empty",
   "notempty", "hastag", "haslink", "infolder"}

\* a comparison, a negation, or a call to a filter function in any letter case
FilterOperand(f) ==
  \/ f.type = "binaryop" /\ f.op \in {"=", "!=", ">", ">=", "<", "<="}
  \/ f.type = "negated"
  \/ f.type = "function" /\ f.func.type = "variable"
       /\ toLowerCase(f.func.name) \in FilterFunctionNames

\* a lowered logical BinaryOp whose operands lower without error
LogicalLowered ==
  /\ FieldLowered
  /\ field.type = "binaryop" /\ field.op \in {"&", "|"}
  /\ ~IsThrow(transformFieldExpression(field.left))
  /\ ~IsThrow(transformFieldExpression(field.right))

\* the group or the infix text, for the operands' lowerings left and right
GroupOrInfix(f, low, left, right) ==
  IF \/ FilterOperand(f.left) \/ FilterOperand(f.right)
     \/ isLogicalObject(left) \/ isLogicalObject(right)
    THEN IsObj(low) /\ low.key = (IF f.op = "&" THEN "and" ELSE "or")
  ELSE low = Str(Interp(left) \o (IF f.op = "&" THEN " && " ELSE " || ") \o Interp(right))

\* C19: a logical BinaryOp lowers to a filter group if and only if an operand
\* is a filter expression (comparison, negation, call to contains,
\* containsAny, containsAll, startswith, endswith, empty, notEmpty, hasTag,
\* hasLink or inFolder) or lowers to a logical group; otherwise to the infix
\* text lower(left) && lower(right) or lower(left) || lower(right).
C19_GroupIffFilterOperand ==
  LogicalLowered =>
    GroupOrInfix(field, lowered, transformFieldExpression(field.left),
                 transformFieldExpression(field.right))

\* the name a date keyword argument is written with: a variable's name or
\* a string literal's text; "" for any other argument
KeywordOf(arg) ==
  IF arg.type = "variable" THEN arg.name
  ELSE IF arg.type = "literal" /\ arg.lit = "string" THEN arg.str
  ELSE ""

\* a lowered one-argument call of date
DateOfOne ==
  /\ FieldLowered
  /\ field.type = "function" /\ field.func.type = "variable"
  /\ toLowerCase(field.func.name) = "date"
  /\ Len(field.arguments) = 1

RelativeToNow(k) ==
  CASE k = "today" -> Str("now()")
    [] k = "tomorrow" -> Str("now() + \"1 day\"")
    [] k = "yesterday" -> Str("now() + \"-1 day\"")
    [] OTHER -> Null

\* C20: date(k) lowers to now() for today, to now() + "1 day" for tomorrow
\* and to now() + "-1 day" for yesterday, in every letter case of k, given
\* as a variable or as a string literal.
C20_DateKeywords ==
  (DateOfOne /\ toLowerCase(KeywordOf(field.arguments[1])) \in {"today", "tomorrow", "yesterday"})
    => lowered = RelativeToNow(toLowerCase(KeywordOf(field.arguments[1])))

C20_Witness ==
  /\ FieldLowered
  /\ field = Call("date", <<StringLit("Yesterday")>>)
  /\ lowered = Str("now() + \"-1 day\"")

\* every and-group and or-group anywhere in v has two elements or more
RECURSIVE NoSmallGroup(_)
NoSmallGroup(v) ==
  IsObj(v) =>
    /\ v.key \in {"and", "or"} => Len(v.list) >= 2
    /\ \A i \in DOMAIN v.list : NoSmallGroup(v.list[i])

NoSmallGroupIn(slot) == Has(slot) => NoSmallGroup(Get(slot))

\* a source that contributes no predicate: Empty, the empty folder path, and
\* what is built of them alone
RECURSIVE NoPredicate(_)
NoPredicate(src) ==
  CASE src.type = "empty" -> TRUE
    [] src.type = "folder" -> src.folder = ""
    [] src.type = "negate" -> NoPredicate(src.child)
    [] src.type = "binaryop" -> NoPredicate(src.left) /\ NoPredicate(src.right)
    [] OTHER -> FALSE

NoWhere(ops) == \A i \in DOMAIN ops : ops[i].type # "where"

\* the query with its source replaced
WithSource(q, src) == [q EXCEPT !.source = src]

\* C21: no and/or group with fewer than two elements appears in the filter
\* transform produces; a side of a source combination that contributes no
\* predicate is dropped, so the result is the one of the other side alone
\* (one remaining predicate is that predicate itself); when neither the
\* source nor a Where contributes a predicate the result has no filters key.
C21_NoDegenerateGroup ==
  (Transformed /\ result.t = "returned") =>
    /\ NoSmallGroupIn(result.value.filters)
    /\ NoSmallGroupIn(result.value.views[1].filters)
    /\ (query.source.type = "binaryop" /\ NoPredicate(query.source.left)) =>
         result = transform(WithSource(query, query.source.right), placeFiltersInView)
    /\ (query.source.type = "binaryop" /\ NoPredicate(query.source.right)) =>
         result = transform(WithSource(query, query.source.left), placeFiltersInView)
    /\ (NoPredicate(query.source) /\ NoWhere(query.operations)) =>
         ~Has(result.value.filters) /\ ~Has(result.value.views[1].filters)

C21_Witness ==
  /\ Transformed
  /\ query.source = BinaryOpSource("&", Folder(""), Tag("#project"))
  /\ query.operations = <<>>
  /\ result.t = "returned"
  /\ FilterSlot(result.value, placeFiltersInView) = Present(Str("file.hasTag(\"project\")"))

\* C22: the transformer keeps no state across calls: at the start of every
\* call on an instance, whatever calls it served before and however they
\* ended, the formula counter has its initial value, and the result of the
\* call is the one a freshly constructed instance gives for the same Query
\* and placeFiltersInView.
C22_NoStateAcrossCalls ==
  /\ (call = "transform" /\ pc = "ready") => formulaCounter = 0
  /\ Transformed => result = transform(query, placeFiltersInView)

C22_Witness ==
  /\ Transformed
  /\ history = <<"returned", "throw">>
  /\ query.header = TwoFormulas
  /\ result.t = "returned"
  /\ formulaCounter = 0

Max(S) == CHOOSE x \in S : \A y \in S : y <= x

\* the nesting depth of a Field tree
RECURSIVE FieldDepth(_)
FieldDepth(f) ==
  1 + Max({0} \cup
          CASE f.type = "index" -> {FieldDepth(f.object), FieldDepth(f.index)}
            [] f.type = "binaryop" -> {FieldDepth(f.left), FieldDepth(f.right)}
            [] f.type = "function" ->
                 {FieldDepth(f.func)} \cup {FieldDepth(f.arguments[i]) : i \in DOMAIN f.arguments}
            [] f.type = "negated" -> {FieldDepth(f.child)}
            [] f.type = "list" -> {FieldDepth(f.values[i]) : i \in DOMAIN f.values}
            [] OTHER -> {})

\* the nesting depth of a Source tree
RECURSIVE SourceDepth(_)
SourceDepth(src) ==
  1 + Max({0} \cup
          CASE src.type = "negate" -> {SourceDepth(src.child)}
            [] src.type = "binaryop" -> {SourceDepth(src.left), SourceDepth(src.right)}
            [] OTHER -> {})

\* the bound of the repository's WHERE-clause parser, taken for the walk
DepthBound == DepthLimit

\* C23: the recursive walk over a Field or Source tree enforces a
\* nesting-depth bound: a tree nested deeper than the bound is not lowered,
\* the walk ends with a failure.
C23_DepthBoundEnforced ==
  /\ (FieldLowered /\ FieldDepth(field) > DepthBound) => IsThrow(lowered)
  /\ (SourceLowered /\ SourceDepth(source) > DepthBound) => IsThrow(lowered)

SortOf(res) == IF Has(res.views[1].sort) THEN Get(res.views[1].sort) ELSE <<>>

\* group_by of the view is absent or a string
GroupIsText(res) == Has(res.views[1].group_by) => IsStr(Get(res.views[1].group_by))

\* C24: in every configuration transform returns, every value of formulas,
\* every entry of order, every sort column and group_by is a string (a key
\* of display is the text of its column by construction): a logical group
\* object appears only inside filters.
C24_OnlyFiltersHoldGroups ==
  (Transformed /\ result.t = "returned") =>
    /\ \A i \in DOMAIN FormulasOf(result.value) : IsStr(FormulasOf(result.value)[i].v)
    /\ \A i \in DOMAIN OrderOf(result.value) : IsStr(OrderOf(result.value)[i])
    /\ \A i \in DOMAIN SortOf(result.value) : IsStr(SortOf(result.value)[i].column)
    /\ GroupIsText(result.value)

\* the sort columns alone
C24_SortColumnsText ==
  (Transformed /\ result.t = "returned") =>
    \A i \in DOMAIN SortOf(result.value) : IsStr(SortOf(result.value)[i].column)

\* group_by alone
C24_GroupByText == (Transformed /\ result.t = "returned") => GroupIsText(result.value)

ExpressionUpdated == pc = "done" /\ call = "updateFilterExpression"

\* C25: updateFilterExpression rewrites every old-syntax call
\* dateModify(d, "<duration>") to d + "<duration>" and every dateDiff(a, b)
\* to a - b, whatever the other rewrite passes do to the text around it.
C25_DateCallsRewritten ==
  ExpressionUpdated =>
    \A c \in Contexts, dateCall \in OldDateCalls :
      filterText = c.before \o dateCall.old \o c.after
        => updatedFilter = c.newBefore \o dateCall.new \o c.newAfter

\* the text around the date calls is rewritten as the help says
C25_ContextRewritten ==
  ExpressionUpdated =>
    \A c \in Contexts, dateCall \in OldDateCalls :
      filterText = c.before \o dateCall.old \o c.after
        => /\ startsWith(updatedFilter, c.newBefore)
           /\ endsWith(updatedFilter, c.newAfter)

UnsupportedMessages ==
  {"LIST queries are not supported. Please use TABLE queries instead.",
   "TASK queries are not supported. Please use TABLE queries instead.",
   "CALENDAR queries are not supported. Please use TABLE queries instead."}

\* C26: for every Query whose header is Table, transform returns a
\* configuration and never throws; the only exceptions of transform are the
\* unsupported-header errors, whose message names the unsupported construct.
C26_TableNeverThrows ==
  Transformed =>
    /\ query.header.type = "table" => result.t = "returned"
    /\ IsThrow(result) => result.msg \in UnsupportedMessages

Pad2(n) == IF n < 10 THEN "0" \o ToString(n) ELSE ToString(n)

\* date("Y-MM-DD")
DateConstructor(y, m, d) ==
  Str("date(\"" \o ToString(y) \o "-" \o Pad2(m) \o "-" \o Pad2(d) \o "\")")

InDateRange(y, m, d) == y \in 1900..2100 /\ m \in 1..12 /\ d \in 1..31

\* C27: date(Y - M - D), three number literals with 1900 <= Y <= 2100,
\* 1 <= M <= 12 and 1 <= D <= 31, lowers to date("Y-MM-DD") with month and
\* day padded to two digits, for (Y - M) - D and for Y - (M - D).
C27_DateLikeBothNestings ==
  FieldLowered =>
    \A y \in Years, m \in Months, d \in Days :
      (/\ InDateRange(y, m, d)
       /\ field \in {Call("date", <<LeftNested(y, m, d)>>),
                     Call("date", <<RightNested(y, m, d)>>)})
        => lowered = DateConstructor(y, m, d)

\* the nesting Y - (M - D) alone
C27_RightNestingOnly ==
  FieldLowered =>
    \A y \in Years, m \in Months, d \in Days :
      (InDateRange(y, m, d) /\ field = Call("date", <<RightNested(y, m, d)>>))
        => lowered = DateConstructor(y, m, d)

\* the configuration without its two filter slots
WithoutFilters(res) == [res EXCEPT !.filters = Absent, !.views[1].filters = Absent]

\* res is the result under the flag inView, other the result under the
\* opposite flag
SameButFilterPlace(res, other, inView) ==
  IF res.t # "returned" THEN other = res
  ELSE /\ other.t = "returned"
       /\ ~Has(FilterSlot(res.value, ~inView))
       /\ ~Has(FilterSlot(other.value, inView))
       /\ FilterSlot(res.value, inView) = FilterSlot(other.value, ~inView)
       /\ WithoutFilters(res.value) = WithoutFilters(other.value)

\* C28: the combined filter is placed in exactly one location chosen by
\* placeFiltersInView, views[0].filters when true and the top-level filters
\* when false, never in both; every other part of the result is identical
\* for the two flag values.
C28_FilterPlaceOnly ==
  Transformed =>
    SameButFilterPlace(result, transform(query, ~placeFiltersInView), placeFiltersInView)

C28_Witness ==
  /\ Transformed
  /\ query = ScenarioQuery
  /\ ~placeFiltersInView
  /\ result.t = "returned"
  /\ Has(result.value.filters)
  /\ ~Has(result.value.views[1].filters)
  /\ IsGroup(Get(result.value.filters), "and")

\* the activations the step from pending to pending' has called
Called == SubSeq(pending', 1, Len(pending') - Len(pending) + 1)

\* every call made by the running activation has its depth plus one
DepthGrowsByOne ==
  pending # <<>> =>
    \A i \in 1..Len(Called) : Called[i].depth = Head(pending).depth + 1

\* an activation entered past the limit calls nothing and hands its whole
\* text to parseCondition
GuardReturnsLeaf ==
  (pending # <<>> /\ Head(pending).depth > DepthLimit) =>
    /\ pending' = Tail(pending)
    /\ leaves' = Append(leaves, [text |-> Head(pending).text,
                                 depth |-> Head(pending).depth,
                                 fn |-> Head(pending).fn])

\* what is left to do for one activation: its text and the hand-over from
\* parseDataviewFilters to parseNestedConditions
FrameRank(frame) ==
  2 * Len(frame.text) + (IF frame.fn = "parseDataviewFilters" THEN 2 ELSE 1)

RECURSIVE StackRank(_)
StackRank(frames) ==
  IF frames = <<>> THEN 0 ELSE FrameRank(Head(frames)) + StackRank(Tail(frames))

\* a natural number that every step of the call makes smaller
Rank == StackRank(pending) + (IF pc = "ready" THEN 1 ELSE 0)

\* C29: the legacy WHERE parser always terminates and raises no depth
\* error: every step makes the rank smaller, every call made by
\* parseDataviewFilters or parseNestedConditions has the caller's depth
\* plus one, and an activation entered with depth greater than 10 returns
\* parseCondition of its whole text without calling further.
C29_TerminatesWithinDepth ==
  [][DepthGrowsByOne /\ GuardReturnsLeaf /\ Rank' < Rank]_vars

C29_Witness ==
  /\ pc = "done"
  /\ call = "parseDataviewFilters"
  /\ filterText = "f(x) and " \o Wrapped("a or  b", 5)
  /\ leaves = <<[text |-> "f(x)", depth |-> 1, fn |-> "parseDataviewFilters"],
                 [text |-> "a or b", depth |-> DepthLimit + 1,
                  fn |-> "parseDataviewFilters"]>>

C29_NestedWitness ==
  /\ pc = "done"
  /\ filterText = Wrapped("a or  b", 6)
  /\ leaves = <<[text |-> "(a or b)", depth |-> DepthLimit + 1,
                 fn |-> "parseNestedConditions"]>>
  /\ lowered = [condition |-> "(a or b)"]

ResultReturned == pc = "done" /\ call \in {"map", "flatMap", "mapErr", "cast", "flatMap2"}

NotInvoked == reply.invoked = <<>>

\* C30: map, flatMap and cast on a Failure do not invoke the callback and
\* return the failure with its error; flatMap2 invokes f only when both
\* results are successes, returns a failure with first's error whenever
\* first failed, otherwise a failure with second's error; mapErr on a
\* Success returns it with its value unchanged.
C30_FailureShortCircuits ==
  ResultReturned =>
    /\ (call \in {"map", "flatMap", "cast"} /\ ~operands[1].successful)
         => (NotInvoked /\ reply.returns = Failure(operands[1].error))
    /\ (call = "mapErr" /\ operands[1].successful)
         => (NotInvoked /\ reply.returns = Success(operands[1].value))
    /\ call = "flatMap2"
         => /\ ~NotInvoked <=> (operands[1].successful /\ operands[2].successful)
            /\ ~operands[1].successful => reply.returns = Failure(operands[1].error)
            /\ (operands[1].successful /\ ~operands[2].successful)
                 => reply.returns = Failure(operands[2].error)

C30_Witness ==
  /\ ResultReturned
  /\ call = "flatMap2"
  /\ ~operands[1].successful
  /\ ~operands[2].successful
  /\ operands[1].error # operands[2].error
  /\ reply = Answer(Failure(operands[1].error), <<>>)

====
